---- MODULE Spec2Model ----
(***************************************************************************)
(* AssetVerse server (src/index.js): the HTTP handlers of the asset        *)
(* request / approval / assignment / return workflow, run one at a time    *)
(* against the MongoDB collections users, assets, requests,                *)
(* assetassignments and employeeAffiliations.                              *)
(*                                                                         *)
(* A collection is a sequence of documents; a document's _id is its index. *)
(* Timestamps (new Date()) are the token "date"; null is "null".           *)
(* Display-only fields (names, images, notes, updatedAt) are left out.     *)
(*                                                                         *)
(* The database starts with the accounts signed up (two HRs, each with its *)
(* own company, and two employees) and the other collections empty.        *)
(* A request is taken when the previous answer has been sent (Respond);    *)
(* res holds the answer in flight together with the call it answers.       *)
(*                                                                         *)
(* Spec is the asset workflow; SpecProfile is the request, approval and    *)
(* removal workflow together with the profile edit PUT /users/:email.      *)
(* SpecPayment adds the Stripe checkout and its confirmation (payments and *)
(* the checkout sessions held by Stripe); SpecHR is the HR-only endpoints  *)
(* from a database with one paid session. SpecApprovals runs two approvals *)
(* of PATCH /requests/:id read by read and write by write (calls), so that *)
(* their database operations interleave.                                   *)
(***************************************************************************)
EXTENDS Integers, Sequences, FiniteSets, TLC

\* ---------------------------------------------------------------- bounds
MaxRequests    == 2
MaxAssignments == 2
MaxQuantity    == 2
MaxPayments    == 2

\* ---------------------------------------------------------------- inputs
HREmails       == {"h1", "h2"}
EmployeeEmails == {"e1", "e2"}
UserEmails     == HREmails \cup EmployeeEmails
NoToken        == "anon"
Tokens         == UserEmails \cup {NoToken}
Companies      == {"c1", "c2"}
NoEmail        == ""

CompanyOf(hr)  == IF hr = "h1" THEN "c1" ELSE "c2"
SignupLimits   == {0, 1}

\* the currentEmployees values a client sends in a profile edit
EditedCounts   == {0, 1}

\* the packages seeded at startup, and a packageId that names none of them
Packages       == {"Basic", "Standard", "Premium"}
PackageIds     == Packages \cup {"unknown"}

\* the checkout sessions the processor keeps; 0 stands for a missing sessionId
\* and 2 for an id the processor does not know
StoredSessionIds == {1}
SessionIds       == StoredSessionIds \cup {0, 2}

\* the approvals in progress at the same time
Calls          == {1, 2}

StoredAssetIds == {1}
AssetIds       == StoredAssetIds \cup {2}
RequestIds     == 1..(MaxRequests + 1)
AssignmentIds  == 1..(MaxAssignments + 1)

VARIABLES users, assets, requests, assignments, affiliations, res,
          payments, sessions, calls

store == <<users, assets, requests, assignments, affiliations>>
\* the payments collection and the checkout sessions kept by the processor
ledger == <<payments, sessions>>
vars  == <<users, assets, requests, assignments, affiliations, res, payments, sessions,
           calls>>

\* ------------------------------------------------------------- documents
NoUser == [role |-> "none", companyName |-> "", packageLimit |-> 0, currentEmployees |-> 0,
           subscription |-> "undefined"]

\* POST /users: the document stored at signup (packageLimit || 0)
newUser(email, packageLimit) ==
  LET role == IF email \in HREmails THEN "hr" ELSE "employee" IN
  [role |-> role,
   companyName |-> IF role = "hr" THEN CompanyOf(email) ELSE "",
   packageLimit |-> IF role = "hr" THEN packageLimit ELSE 0,
   currentEmployees |-> 0,
   subscription |-> "undefined"]

NoAsset == [exists |-> FALSE, hrEmail |-> "", companyName |-> "",
            productQuantity |-> 0, availableQuantity |-> 0]

\* sendError / res.json: the last answer, with the call it answers
Answer(op, token, id, email, arg, statusCode, code) ==
  [op |-> op, token |-> token, id |-> id, email |-> email, arg |-> arg,
   statusCode |-> statusCode, code |-> code]

Idle == Answer("idle", NoToken, 0, "", "", 0, "")

\* an approval in progress: where it stands (pc), its arguments, what it has
\* read into its local constants asset and hrUser, and its answer
NoCall == [pc |-> "idle", token |-> NoToken, requestId |-> 0,
           availableQuantity |-> 0, packageLimit |-> 0, currentEmployees |-> 0,
           statusCode |-> 0, code |-> ""]

sendError(op, token, id, email, arg, statusCode, code) ==
  /\ res' = Answer(op, token, id, email, arg, statusCode, code)
  /\ UNCHANGED store

\* ----------------------------------------------------------- middleware
\* verifyToken: a token is a signed {email}; POST /jwt signs one for stored users only
verifyToken(token) == token /= NoToken /\ token \in DOMAIN users

\* usersCollection.findOne({ email })
findUser(email) == IF email \in DOMAIN users THEN users[email] ELSE NoUser

\* verifyHR: the stored role decides
verifyHR_AnyRole(token) == findUser(token).role /= "none"

verifyHR(token) == findUser(token).role = "hr"

\* ------------------------------------------------------ collection reads
\* assetsCollection.findOne({ _id })
findAsset(assetId) ==
  IF assetId \in 1..Len(assets) /\ assets[assetId].exists THEN assets[assetId] ELSE NoAsset

\* the hrEmail a client copies into its request from the asset's listing
ListedHR(assetId) ==
  {h \in HREmails : findAsset(assetId).exists => h = findAsset(assetId).hrEmail}

\* affiliationsCollection.findOne({ employeeEmail, companyName, status: 'active' })
ActiveAffiliations(employeeEmail, companyName) ==
  {i \in 1..Len(affiliations) :
      /\ affiliations[i].employeeEmail = employeeEmail
      /\ affiliations[i].companyName = companyName
      /\ affiliations[i].status = "active"}

\* the unique index { employeeEmail: 1, companyName: 1 } of employeeAffiliations
DuplicateKey_NoIndex(employeeEmail, companyName) == FALSE

DuplicateKey(employeeEmail, companyName) ==
  \E i \in 1..Len(affiliations) :
      /\ affiliations[i].employeeEmail = employeeEmail
      /\ affiliations[i].companyName = companyName

Init ==
  /\ \E packageLimit \in SignupLimits :
        users = [e \in UserEmails |-> newUser(e, IF e = "h1" THEN packageLimit ELSE 0)]
  /\ assets = <<>>
  /\ requests = <<>>
  /\ assignments = <<>>
  /\ affiliations = <<>>
  /\ payments = <<>>
  /\ sessions = <<>>
  /\ calls = [c \in Calls |-> NoCall]
  /\ res = Idle

\* ----------------------------------------------------------- POST /assets
PostAssets(token, productQuantity) ==
  IF ~verifyToken(token)
  THEN sendError("POST /assets", token, 0, "", "", 401, "UNAUTHORIZED")
  ELSE IF ~verifyHR(token)
  THEN sendError("POST /assets", token, 0, "", "", 403, "FORBIDDEN")
  ELSE IF productQuantity = 0
  THEN sendError("POST /assets", token, 0, "", "", 400, "MISSING_FIELDS")
  ELSE /\ Len(assets) + 1 \in StoredAssetIds
       /\ assets' = Append(assets,
                      [exists |-> TRUE, hrEmail |-> token,
                       companyName |-> findUser(token).companyName,
                       productQuantity |-> productQuantity,
                       availableQuantity |-> productQuantity])
       /\ res' = Answer("POST /assets", token, Len(assets) + 1, "", "", 201, "OK")
       /\ UNCHANGED <<users, requests, assignments, affiliations>>

\* -------------------------------------------------------- PUT /assets/:id
\* countDocuments({ assetId, status: 'assigned' })
assignedCount(assetId) ==
  Cardinality({i \in 1..Len(assignments) :
                 assignments[i].assetId = assetId /\ assignments[i].status = "assigned"})

Max(a, b) == IF a >= b THEN a ELSE b

\* if (productQuantity < assignedCount)
belowAssigned_OrEqual(productQuantity, assigned) == productQuantity <= assigned

belowAssigned(productQuantity, assigned) == productQuantity < assigned

\* availableQuantity: Math.max(0, oldAvailable + (productQuantity - asset.productQuantity))
newAvailable_Reset(asset, productQuantity) == productQuantity

newAvailable(asset, productQuantity) ==
  Max(0, asset.availableQuantity + (productQuantity - asset.productQuantity))

\* the answer keeps the productQuantity of the body as text
PutAssets(token, assetId, productQuantity) ==
  LET asset == findAsset(assetId)
      sent == ToString(productQuantity)
  IN
  IF ~verifyToken(token)
  THEN sendError("PUT /assets", token, assetId, "", sent, 401, "UNAUTHORIZED")
  ELSE IF ~verifyHR(token)
  THEN sendError("PUT /assets", token, assetId, "", sent, 403, "FORBIDDEN")
  ELSE IF ~asset.exists
  THEN sendError("PUT /assets", token, assetId, "", sent, 404, "ASSET_NOT_FOUND")
  ELSE IF productQuantity > 0
  THEN IF belowAssigned(productQuantity, assignedCount(assetId))
       THEN sendError("PUT /assets", token, assetId, "", sent, 400, "INVALID_QUANTITY")
       ELSE /\ assets' = [assets EXCEPT ![assetId] =
                   [@ EXCEPT !.productQuantity = productQuantity,
                             !.availableQuantity = newAvailable(asset, productQuantity)]]
            /\ res' = Answer("PUT /assets", token, assetId, "", sent, 200, "OK")
            /\ UNCHANGED <<users, requests, assignments, affiliations>>
  ELSE /\ res' = Answer("PUT /assets", token, assetId, "", sent, 200, "OK")
       /\ UNCHANGED store

\* ----------------------------------------------------- DELETE /assets/:id
\* if (asset.availableQuantity !== asset.productQuantity)
isAssigned_NoneLeft(asset) == asset.availableQuantity = 0

isAssigned(asset) == asset.availableQuantity /= asset.productQuantity

DeleteAssets(token, assetId) ==
  LET asset == findAsset(assetId) IN
  IF ~verifyToken(token)
  THEN sendError("DELETE /assets", token, assetId, "", "", 401, "UNAUTHORIZED")
  ELSE IF ~verifyHR(token)
  THEN sendError("DELETE /assets", token, assetId, "", "", 403, "FORBIDDEN")
  ELSE IF ~asset.exists
  THEN sendError("DELETE /assets", token, assetId, "", "", 404, "ASSET_NOT_FOUND")
  ELSE IF isAssigned(asset)
  THEN sendError("DELETE /assets", token, assetId, "", "", 400, "ASSET_ASSIGNED")
  ELSE /\ assets' = [assets EXCEPT ![assetId] = NoAsset]
       /\ res' = Answer("DELETE /assets", token, assetId, "", "", 200, "OK")
       /\ UNCHANGED <<users, requests, assignments, affiliations>>

\* --------------------------------------------------------- POST /requests
\* requestsCollection.findOne({ assetId, employeeEmail, status: 'pending' })
existingRequest_WrongStatus(assetId, employeeEmail) ==
  \E i \in 1..Len(requests) :
      /\ requests[i].assetId = assetId
      /\ requests[i].employeeEmail = employeeEmail
      /\ requests[i].status = "approved"

existingRequest(assetId, employeeEmail) ==
  \E i \in 1..Len(requests) :
      /\ requests[i].assetId = assetId
      /\ requests[i].employeeEmail = employeeEmail
      /\ requests[i].status = "pending"

\* if (req.decoded?.email !== employeeEmail)
notCaller_Unchecked(token, employeeEmail) == FALSE

notCaller(token, employeeEmail) == token /= employeeEmail

PostRequests(token, assetId, employeeEmail, hrEmail) ==
  LET asset == findAsset(assetId) IN
  IF ~verifyToken(token)
  THEN sendError("POST /requests", token, assetId, employeeEmail, hrEmail, 401, "UNAUTHORIZED")
  ELSE IF notCaller(token, employeeEmail)
  THEN sendError("POST /requests", token, assetId, employeeEmail, hrEmail, 403, "FORBIDDEN")
  ELSE IF ~asset.exists
  THEN sendError("POST /requests", token, assetId, employeeEmail, hrEmail, 404, "ASSET_NOT_FOUND")
  ELSE IF asset.availableQuantity <= 0
  THEN sendError("POST /requests", token, assetId, employeeEmail, hrEmail, 400, "NO_AVAILABLE_QUANTITY")
  ELSE IF existingRequest(assetId, employeeEmail)
  THEN sendError("POST /requests", token, assetId, employeeEmail, hrEmail, 400, "DUPLICATE_REQUEST")
  ELSE /\ Len(requests) < MaxRequests
       /\ requests' = Append(requests,
                        [assetId |-> assetId,
                         employeeEmail |-> employeeEmail,
                         hrEmail |-> hrEmail,
                         companyName |-> CompanyOf(hrEmail),
                         status |-> "pending",
                         approvalDate |-> "null",
                         rejectionReason |-> "null"])
       /\ res' = Answer("POST /requests", token, assetId, employeeEmail, hrEmail, 201, "OK")
       /\ UNCHANGED <<users, assets, assignments, affiliations>>

\* ------------------------------------------------- PATCH /requests/:id
\* if (request.status !== 'pending')
notPending_OnlyRejected(request) == request.status = "rejected"

notPending(request) == request.status /= "pending"

\* if (!asset || asset.availableQuantity <= 0)
noAvailableQuantity_FoundOnly(asset) == asset.exists /\ asset.availableQuantity <= 0

noAvailableQuantity_OffByOne(asset) == ~asset.exists \/ asset.availableQuantity < 0

noAvailableQuantity(asset) == ~asset.exists \/ asset.availableQuantity <= 0

\* if (packageLimit > 0 && currentEmployees >= packageLimit)
packageLimitReached_OffByOne(packageLimit, currentEmployees) ==
  packageLimit > 0 /\ currentEmployees > packageLimit

packageLimitReached(packageLimit, currentEmployees) ==
  packageLimit > 0 /\ currentEmployees >= packageLimit

\* the assignment document built from the request
approvalAssignment_OtherEmployee(request) ==
  [assetId |-> request.assetId,
   employeeEmail |-> request.hrEmail,
   companyName |-> request.companyName,
   status |-> "assigned",
   returnDate |-> "null"]

approvalAssignment(request) ==
  [assetId |-> request.assetId,
   employeeEmail |-> request.employeeEmail,
   companyName |-> request.companyName,
   status |-> "assigned",
   returnDate |-> "null"]

\* if (!existingAffiliation)
notAffiliated_Always(existingAffiliation) == TRUE

notAffiliated(existingAffiliation) == existingAffiliation = {}

Approve(token, requestId) ==
  LET request == requests[requestId]
      asset   == findAsset(request.assetId)
      hrUser  == findUser(request.hrEmail)
      existingAffiliation == ActiveAffiliations(request.employeeEmail, request.companyName)
      op(statusCode, code) == Answer("PATCH /requests", token, requestId, "", "approved", statusCode, code)
      fail(statusCode, code) == res' = op(statusCode, code) /\ UNCHANGED store
  IN
  IF noAvailableQuantity(asset)
  THEN fail(400, "NO_AVAILABLE_QUANTITY")
  ELSE IF hrUser.role = "none"
  THEN fail(404, "HR_NOT_FOUND")
  ELSE IF notAffiliated(existingAffiliation)
          /\ packageLimitReached(hrUser.packageLimit, hrUser.currentEmployees)
  THEN fail(403, "PACKAGE_LIMIT")
  ELSE IF notAffiliated(existingAffiliation)
          /\ DuplicateKey(request.employeeEmail, request.companyName)
  THEN \* insertOne throws E11000; the catch block answers 500
       fail(500, "SERVER_ERROR")
  ELSE /\ Len(assignments) < MaxAssignments
       /\ IF notAffiliated(existingAffiliation)
          THEN /\ affiliations' = Append(affiliations,
                                    [employeeEmail |-> request.employeeEmail,
                                     hrEmail |-> request.hrEmail,
                                     companyName |-> request.companyName,
                                     status |-> "active"])
               /\ users' = [users EXCEPT ![request.hrEmail].currentEmployees =
                                             hrUser.currentEmployees + 1]
          ELSE UNCHANGED <<affiliations, users>>
       /\ assignments' = Append(assignments, approvalAssignment(request))
       /\ assets' = [assets EXCEPT ![request.assetId].availableQuantity =
                                      asset.availableQuantity - 1]
       /\ requests' = [requests EXCEPT ![requestId] =
                          [@ EXCEPT !.status = "approved", !.approvalDate = "date"]]
       /\ res' = op(200, "OK")

\* const updateData = { status: 'rejected', rejectionReason: rejectionReason || '', ... }
rejectedRequest_ReasonOnly(request) == [request EXCEPT !.rejectionReason = ""]

rejectedRequest(request) == [request EXCEPT !.status = "rejected", !.rejectionReason = ""]

Reject(token, requestId) ==
  /\ requests' = [requests EXCEPT ![requestId] = rejectedRequest(@)]
  /\ res' = Answer("PATCH /requests", token, requestId, "", "rejected", 200, "OK")
  /\ UNCHANGED <<users, assets, assignments, affiliations>>

PatchRequests(token, requestId, status) ==
  IF ~verifyToken(token)
  THEN sendError("PATCH /requests", token, requestId, "", status, 401, "UNAUTHORIZED")
  ELSE IF ~verifyHR(token)
  THEN sendError("PATCH /requests", token, requestId, "", status, 403, "FORBIDDEN")
  ELSE IF requestId \notin 1..Len(requests)
  THEN sendError("PATCH /requests", token, requestId, "", status, 404, "REQUEST_NOT_FOUND")
  ELSE IF notPending(requests[requestId])
  THEN sendError("PATCH /requests", token, requestId, "", status, 400, "INVALID_STATE")
  ELSE IF status = "approved"
  THEN Approve(token, requestId)
  ELSE Reject(token, requestId)

\* -------------------------------------- PATCH /assigned-assets/:id/return
\* if (req.decoded?.email !== employeeEmail || assignment.employeeEmail !== employeeEmail)
notOwnAsset_BodyOnly(token, employeeEmail, assignment) ==
  assignment.employeeEmail /= employeeEmail

notOwnAsset(token, employeeEmail, assignment) ==
  token /= employeeEmail \/ assignment.employeeEmail /= employeeEmail

\* if (assignment.status !== 'assigned')
notAssigned_Unchecked(assignment) == FALSE

notAssigned(assignment) == assignment.status /= "assigned"

\* const updateData = { status: 'returned', returnDate: new Date(), ... }
returnedAssignment_NoDate(assignment) == [assignment EXCEPT !.status = "returned"]

returnedAssignment(assignment) ==
  [assignment EXCEPT !.status = "returned", !.returnDate = "date"]

\* $set: { availableQuantity: asset.availableQuantity + 1 }
returnedQuantity_Kept(asset) == asset.availableQuantity

returnedQuantity(asset) == asset.availableQuantity + 1

ReturnAsset(token, assignmentId, employeeEmail) ==
  LET fail(statusCode, code) ==
        sendError("PATCH /assigned-assets/return", token, assignmentId, employeeEmail, "",
                  statusCode, code)
  IN
  IF ~verifyToken(token)
  THEN fail(401, "UNAUTHORIZED")
  ELSE IF employeeEmail = NoEmail
  THEN fail(400, "MISSING_EMAIL")
  ELSE IF assignmentId \notin 1..Len(assignments)
  THEN fail(404, "ASSIGNMENT_NOT_FOUND")
  ELSE IF notAssigned(assignments[assignmentId])
  THEN fail(400, "INVALID_STATE")
  ELSE IF notOwnAsset(token, employeeEmail, assignments[assignmentId])
  THEN fail(403, "FORBIDDEN")
  ELSE LET asset == findAsset(assignments[assignmentId].assetId) IN
       IF ~asset.exists
       THEN fail(404, "ASSET_NOT_FOUND")
       ELSE /\ assets' = [assets EXCEPT ![assignments[assignmentId].assetId].availableQuantity =
                                           returnedQuantity(asset)]
            /\ assignments' = [assignments EXCEPT ![assignmentId] = returnedAssignment(@)]
            /\ res' = Answer("PATCH /assigned-assets/return", token, assignmentId,
                             employeeEmail, "", 200, "OK")
            /\ UNCHANGED <<users, requests, affiliations>>

\* ------------------------------------------------ PATCH /affiliations/remove
\* assetAssignmentsCollection.find({ employeeEmail, companyName, status: 'assigned' })
assignedTo_AnyEmployee(employeeEmail, companyName) ==
  {i \in 1..Len(assignments) :
      /\ assignments[i].companyName = companyName
      /\ assignments[i].status = "assigned"}

assignedTo(employeeEmail, companyName) ==
  {i \in 1..Len(assignments) :
      /\ assignments[i].employeeEmail = employeeEmail
      /\ assignments[i].companyName = companyName
      /\ assignments[i].status = "assigned"}

\* $set: { currentEmployees: Math.max(0, currentEmployees - 1) }
removedEmployee_PerAssignment(currentEmployees, returnedAssets) ==
  Max(0, currentEmployees - returnedAssets)

removedEmployee(currentEmployees, returnedAssets) ==
  Max(0, currentEmployees - 1)

RemoveAffiliation(token, employeeEmail, companyName) ==
  LET fail(statusCode, code) ==
        sendError("PATCH /affiliations/remove", token, 0, employeeEmail, companyName,
                  statusCode, code)
      found == ActiveAffiliations(employeeEmail, companyName)
  IN
  IF ~verifyToken(token)
  THEN fail(401, "UNAUTHORIZED")
  ELSE IF ~verifyHR(token)
  THEN fail(403, "FORBIDDEN")
  ELSE IF found = {}
  THEN fail(404, "AFFILIATION_NOT_FOUND")
  ELSE LET a == CHOOSE i \in found : \A j \in found : i <= j
           affiliation == affiliations[a]
           returned == assignedTo(employeeEmail, companyName)
           hrUser == findUser(affiliation.hrEmail)
       IN
       /\ assignments' = [i \in 1..Len(assignments) |->
                            IF i \in returned
                            THEN [assignments[i] EXCEPT !.status = "returned",
                                                        !.returnDate = "date"]
                            ELSE assignments[i]]
       /\ assets' = [k \in 1..Len(assets) |->
                       IF assets[k].exists
                       THEN [assets[k] EXCEPT !.availableQuantity =
                               @ + Cardinality({i \in returned : assignments[i].assetId = k})]
                       ELSE assets[k]]
       /\ affiliations' = [affiliations EXCEPT ![a].status = "inactive"]
       /\ users' = IF hrUser.role /= "none"
                   THEN [users EXCEPT ![affiliation.hrEmail].currentEmployees =
                                         removedEmployee(hrUser.currentEmployees,
                                                         Cardinality(returned))]
                   ELSE users
       /\ res' = Answer("PATCH /affiliations/remove", token, Cardinality(returned),
                        employeeEmail, companyName, 200, "OK")
       /\ UNCHANGED requests

\* ------------------------------------------------------ POST /assign-asset
\* assetAssignmentsCollection.findOne({ assetId, employeeEmail, status: 'assigned' })
existingAssignment_WrongStatus(assetId, employeeEmail) ==
  \E i \in 1..Len(assignments) :
      /\ assignments[i].assetId = assetId
      /\ assignments[i].employeeEmail = employeeEmail
      /\ assignments[i].status = "returned"

existingAssignment(assetId, employeeEmail) ==
  \E i \in 1..Len(assignments) :
      /\ assignments[i].assetId = assetId
      /\ assignments[i].employeeEmail = employeeEmail
      /\ assignments[i].status = "assigned"

\* const assignment = { assetId, employeeEmail, companyName, returnDate: null, status: 'assigned', ... }
directAssignment_Returned(assetId, employeeEmail, companyName) ==
  [assetId |-> assetId,
   employeeEmail |-> employeeEmail,
   companyName |-> companyName,
   status |-> "returned",
   returnDate |-> "null"]

directAssignment(assetId, employeeEmail, companyName) ==
  [assetId |-> assetId,
   employeeEmail |-> employeeEmail,
   companyName |-> companyName,
   status |-> "assigned",
   returnDate |-> "null"]

AssignAsset(token, assetId, employeeEmail, companyName) ==
  LET fail(statusCode, code) ==
        sendError("POST /assign-asset", token, assetId, employeeEmail, companyName,
                  statusCode, code)
      asset == findAsset(assetId)
  IN
  IF ~verifyToken(token)
  THEN fail(401, "UNAUTHORIZED")
  ELSE IF ~verifyHR(token)
  THEN fail(403, "FORBIDDEN")
  ELSE IF ActiveAffiliations(employeeEmail, companyName) = {}
  THEN fail(403, "NOT_AFFILIATED")
  ELSE IF ~asset.exists
  THEN fail(404, "ASSET_NOT_FOUND")
  ELSE IF asset.availableQuantity <= 0
  THEN fail(400, "NO_AVAILABLE_QUANTITY")
  ELSE IF existingAssignment(assetId, employeeEmail)
  THEN fail(400, "ALREADY_ASSIGNED")
  ELSE /\ Len(assignments) < MaxAssignments
       /\ assignments' = Append(assignments,
                                directAssignment(assetId, employeeEmail, companyName))
       /\ assets' = [assets EXCEPT ![assetId].availableQuantity = asset.availableQuantity - 1]
       /\ res' = Answer("POST /assign-asset", token, assetId, employeeEmail, companyName,
                        201, "OK")
       /\ UNCHANGED <<users, requests, affiliations>>

\* ------------------------------------------------------------ scheduling
\* Handlers run one at a time: a request is taken only when the previous answer
\* has been sent.
Respond ==
  /\ res /= Idle
  /\ res' = Idle
  /\ UNCHANGED <<store, ledger, calls>>

Next ==
  \/ /\ res = Idle
     /\ UNCHANGED calls
     /\ UNCHANGED ledger
     /\ \E token \in Tokens, q \in 0..MaxQuantity : PostAssets(token, q)
  \/ /\ res = Idle
     /\ UNCHANGED calls
     /\ UNCHANGED ledger
     /\ \E token \in Tokens, id \in AssetIds, q \in 0..MaxQuantity : PutAssets(token, id, q)
  \/ /\ res = Idle
     /\ UNCHANGED calls
     /\ UNCHANGED ledger
     /\ \E token \in Tokens, id \in AssetIds : DeleteAssets(token, id)
  \/ /\ res = Idle
     /\ UNCHANGED calls
     /\ UNCHANGED ledger
     /\ \E token \in Tokens, id \in AssetIds, e \in EmployeeEmails :
           \E hr \in ListedHR(id) : PostRequests(token, id, e, hr)
  \/ /\ res = Idle
     /\ UNCHANGED calls
     /\ UNCHANGED ledger
     /\ \E token \in Tokens, id \in RequestIds, status \in {"approved", "rejected"} :
           PatchRequests(token, id, status)
  \/ /\ res = Idle
     /\ UNCHANGED calls
     /\ UNCHANGED ledger
     /\ \E token \in Tokens, id \in AssignmentIds, e \in EmployeeEmails \cup {NoEmail} :
           ReturnAsset(token, id, e)
  \/ /\ res = Idle
     /\ UNCHANGED calls
     /\ UNCHANGED ledger
     /\ \E token \in Tokens, e \in EmployeeEmails, c \in Companies :
           RemoveAffiliation(token, e, c)
  \/ /\ res = Idle
     /\ UNCHANGED calls
     /\ UNCHANGED ledger
     /\ \E token \in Tokens, id \in AssetIds, e \in EmployeeEmails, c \in Companies :
           AssignAsset(token, id, e, c)
  \/ Respond

Spec == Init /\ [][Next]_vars

\* --------------------------------------------------------- PUT /users/:email
\* body is the set of currentEmployees values of the request body: empty when
\* the field is absent (currentEmployees === undefined)
PutUsers(token, email, body) ==
  LET sent == IF body = {} THEN 0 ELSE CHOOSE n \in body : TRUE
      field == IF body = {} THEN "" ELSE "currentEmployees"
  IN
  IF ~verifyToken(token)
  THEN sendError("PUT /users", token, sent, email, field, 401, "UNAUTHORIZED")
  ELSE IF token /= email
  THEN sendError("PUT /users", token, sent, email, field, 403, "FORBIDDEN")
  ELSE IF findUser(email).role = "none"
  THEN sendError("PUT /users", token, sent, email, field, 404, "USER_NOT_FOUND")
  ELSE /\ users' = IF body /= {}
                   THEN [users EXCEPT ![email].currentEmployees = sent]
                   ELSE users
       /\ res' = Answer("PUT /users", token, sent, email, field, 200, "OK")
       /\ UNCHANGED <<assets, requests, assignments, affiliations>>

\* the workflow of requests, approvals and removals together with profile edits
NextProfile ==
  \/ /\ res = Idle
     /\ UNCHANGED calls
     /\ UNCHANGED ledger
     /\ \E token \in Tokens, q \in 0..MaxQuantity : PostAssets(token, q)
  \/ /\ res = Idle
     /\ UNCHANGED calls
     /\ UNCHANGED ledger
     /\ \E token \in Tokens, id \in AssetIds, e \in EmployeeEmails :
           \E hr \in ListedHR(id) : PostRequests(token, id, e, hr)
  \/ /\ res = Idle
     /\ UNCHANGED calls
     /\ UNCHANGED ledger
     /\ \E token \in Tokens, id \in RequestIds, status \in {"approved", "rejected"} :
           PatchRequests(token, id, status)
  \/ /\ res = Idle
     /\ UNCHANGED calls
     /\ UNCHANGED ledger
     /\ \E token \in Tokens, e \in EmployeeEmails, c \in Companies :
           RemoveAffiliation(token, e, c)
  \/ /\ res = Idle
     /\ UNCHANGED calls
     /\ UNCHANGED ledger
     /\ \E token \in Tokens, email \in UserEmails :
           \E body \in {{}} \cup {{n} : n \in EditedCounts} : PutUsers(token, email, body)
  \/ Respond

SpecProfile == Init /\ [][NextProfile]_vars


\* ------------------------------------------------------------ payments
\* const stripe = stripeSecret ? new Stripe(stripeSecret) : null; the deployment
\* sets STRIPE_SECRET_KEY
stripe == TRUE

\* packagesCollection.insertMany([...]): the employeeLimit of each package
employeeLimit(name) ==
  CASE name = "Basic" -> 5
    [] name = "Standard" -> 10
    [] name = "Premium" -> 20
    [] OTHER -> 0

\* String(pkg.employeeLimit)
String(n) ==
  CASE n = 5 -> "5"
    [] n = 10 -> "10"
    [] n = 20 -> "20"
    [] OTHER -> "0"

\* parseInt(metadata.employeeLimit || '0', 10)
parseInt(str) ==
  CASE str = "5" -> 5
    [] str = "10" -> 10
    [] str = "20" -> 20
    [] OTHER -> 0

\* packageName.toLowerCase()
toLowerCase(name) ==
  CASE name = "Basic" -> "basic"
    [] name = "Standard" -> "standard"
    [] name = "Premium" -> "premium"
    [] OTHER -> "unknown"

\* const baseEmployees = 5
baseEmployees == 5

\* paymentsCollection.findOne({ hrEmail })
hasPayment_PendingOnly(hrEmail) ==
  \E i \in 1..Len(payments) : payments[i].hrEmail = hrEmail /\ payments[i].status = "pending"

hasPayment(hrEmail) == \E i \in 1..Len(payments) : payments[i].hrEmail = hrEmail

\* ------------------------------------------- POST /create-checkout-session
CreateCheckoutSession(token, packageId, hrEmail) ==
  LET fail(statusCode, code) ==
        /\ sendError("POST /create-checkout-session", token, 0, hrEmail, packageId,
                     statusCode, code)
        /\ UNCHANGED ledger
  IN
  IF ~verifyToken(token)
  THEN fail(401, "UNAUTHORIZED")
  ELSE IF ~verifyHR(token)
  THEN fail(403, "FORBIDDEN")
  ELSE IF ~stripe
  THEN fail(500, "STRIPE_NOT_CONFIGURED")
  ELSE IF hrEmail = NoEmail
  THEN fail(400, "MISSING_FIELDS")
  ELSE IF token /= hrEmail
  THEN fail(403, "FORBIDDEN")
  ELSE IF hasPayment(hrEmail)
  THEN fail(409, "ALREADY_UPGRADED")
  ELSE IF packageId \notin Packages
  THEN fail(404, "PACKAGE_NOT_FOUND")
  ELSE /\ Len(sessions) < Cardinality(StoredSessionIds)
       /\ sessions' = Append(sessions,
                             [hrEmail |-> hrEmail,
                              packageName |-> packageId,
                              employeeLimit |-> String(employeeLimit(packageId)),
                              payment_status |-> "unpaid"])
       /\ res' = Answer("POST /create-checkout-session", token, Len(sessions) + 1,
                        hrEmail, packageId, 200, "OK")
       /\ UNCHANGED <<store, payments>>

\* the customer pays on the processor's checkout page
Pay(sessionId) ==
  /\ sessionId \in 1..Len(sessions)
  /\ sessions[sessionId].payment_status = "unpaid"
  /\ sessions' = [sessions EXCEPT ![sessionId].payment_status = "paid"]
  /\ UNCHANGED <<store, payments, res, calls>>

\* ------------------------------------------------- POST /confirm-payment
\* the guard against a second confirmation of a session: there is none
confirmed_BySession(sessionId) ==
  \E i \in 1..Len(payments) : payments[i].transactionId = sessionId

confirmed(sessionId) == FALSE

\* $set: { packageLimit: totalLimit, subscription: packageName.toLowerCase() }
upgraded_Added(user, session) ==
  [user EXCEPT !.packageLimit = @ + baseEmployees + parseInt(session.employeeLimit),
               !.subscription = toLowerCase(session.packageName)]

upgraded(user, session) ==
  [user EXCEPT !.packageLimit = baseEmployees + parseInt(session.employeeLimit),
               !.subscription = toLowerCase(session.packageName)]

\* if (!session || session.payment_status !== 'paid')
notPaid_Unchecked(session) == FALSE

notPaid(session) == session.payment_status /= "paid"

ConfirmPayment(token, sessionId) ==
  LET fail(statusCode, code) ==
        /\ sendError("POST /confirm-payment", token, sessionId, "", "", statusCode, code)
        /\ UNCHANGED ledger
  IN
  IF ~verifyToken(token)
  THEN fail(401, "UNAUTHORIZED")
  ELSE IF ~verifyHR(token)
  THEN fail(403, "FORBIDDEN")
  ELSE IF ~stripe
  THEN fail(500, "STRIPE_NOT_CONFIGURED")
  ELSE IF sessionId = 0
  THEN fail(400, "MISSING_SESSION")
  ELSE IF sessionId \notin 1..Len(sessions)
  THEN \* stripe.checkout.sessions.retrieve throws; the catch block answers 500
       fail(500, "SERVER_ERROR")
  ELSE LET session == sessions[sessionId] IN
       IF notPaid(session)
       THEN fail(400, "PAYMENT_INCOMPLETE")
       ELSE IF token /= session.hrEmail
       THEN fail(403, "FORBIDDEN")
       ELSE IF confirmed(sessionId)
       THEN fail(409, "ALREADY_CONFIRMED")
       ELSE /\ Len(payments) < MaxPayments
            /\ users' = [users EXCEPT ![session.hrEmail] = upgraded(@, session)]
            /\ payments' = Append(payments,
                                  [hrEmail |-> session.hrEmail,
                                   packageName |-> session.packageName,
                                   employeeLimit |-> parseInt(session.employeeLimit),
                                   transactionId |-> sessionId,
                                   status |-> "completed"])
            /\ res' = Answer("POST /confirm-payment", token, sessionId, "", "", 200, "OK")
            /\ UNCHANGED <<assets, requests, assignments, affiliations, sessions>>

\* checkout, payment and confirmation next to the request and approval workflow
NextPayment ==
  \/ /\ res = Idle
     /\ UNCHANGED calls
     /\ UNCHANGED ledger
     /\ \E token \in Tokens, q \in 0..MaxQuantity : PostAssets(token, q)
  \/ /\ res = Idle
     /\ UNCHANGED calls
     /\ UNCHANGED ledger
     /\ \E token \in Tokens, id \in AssetIds, e \in EmployeeEmails :
           \E hr \in ListedHR(id) : PostRequests(token, id, e, hr)
  \/ /\ res = Idle
     /\ UNCHANGED calls
     /\ UNCHANGED ledger
     /\ \E token \in Tokens, id \in RequestIds, status \in {"approved", "rejected"} :
           PatchRequests(token, id, status)
  \/ /\ res = Idle
     /\ UNCHANGED calls
     /\ \E token \in Tokens, packageId \in PackageIds, hr \in HREmails \cup {NoEmail} :
           CreateCheckoutSession(token, packageId, hr)
  \/ /\ res = Idle
     /\ UNCHANGED calls
     /\ \E id \in StoredSessionIds : Pay(id)
  \/ /\ res = Idle
     /\ UNCHANGED calls
     /\ \E token \in Tokens, id \in SessionIds : ConfirmPayment(token, id)
  \/ Respond

SpecPayment == Init /\ [][NextPayment]_vars


\* ------------------------------------------------- the HR-only endpoints
\* the database as in Init, with a checkout session of h1 that the customer
\* has paid at the processor
InitPaid ==
  /\ \E packageLimit \in SignupLimits :
        users = [e \in UserEmails |-> newUser(e, IF e = "h1" THEN packageLimit ELSE 0)]
  /\ assets = <<>>
  /\ requests = <<>>
  /\ assignments = <<>>
  /\ affiliations = <<>>
  /\ payments = <<>>
  /\ sessions = <<[hrEmail |-> "h1",
                   packageName |-> "Basic",
                   employeeLimit |-> String(employeeLimit("Basic")),
                   payment_status |-> "paid"]>>
  /\ calls = [c \in Calls |-> NoCall]
  /\ res = Idle

\* the state-mutating HR-only endpoints, and POST /requests to give them work
NextHR ==
  \/ /\ res = Idle
     /\ UNCHANGED calls
     /\ UNCHANGED ledger
     /\ \E token \in Tokens, q \in 0..MaxQuantity : PostAssets(token, q)
  \/ /\ res = Idle
     /\ UNCHANGED calls
     /\ UNCHANGED ledger
     /\ \E token \in Tokens, id \in AssetIds, q \in 0..MaxQuantity : PutAssets(token, id, q)
  \/ /\ res = Idle
     /\ UNCHANGED calls
     /\ UNCHANGED ledger
     /\ \E token \in Tokens, id \in AssetIds : DeleteAssets(token, id)
  \/ /\ res = Idle
     /\ UNCHANGED calls
     /\ UNCHANGED ledger
     /\ \E token \in Tokens, id \in AssetIds, e \in EmployeeEmails :
           \E hr \in ListedHR(id) : PostRequests(token, id, e, hr)
  \/ /\ res = Idle
     /\ UNCHANGED calls
     /\ UNCHANGED ledger
     /\ \E token \in Tokens, id \in RequestIds, status \in {"approved", "rejected"} :
           PatchRequests(token, id, status)
  \/ /\ res = Idle
     /\ UNCHANGED calls
     /\ UNCHANGED ledger
     /\ \E token \in Tokens, e \in EmployeeEmails, c \in Companies :
           RemoveAffiliation(token, e, c)
  \/ /\ res = Idle
     /\ UNCHANGED calls
     /\ UNCHANGED ledger
     /\ \E token \in Tokens, id \in AssetIds, e \in EmployeeEmails, c \in Companies :
           AssignAsset(token, id, e, c)
  \/ /\ res = Idle
     /\ UNCHANGED calls
     /\ \E token \in Tokens, id \in SessionIds : ConfirmPayment(token, id)
  \/ Respond

SpecHR == InitPaid /\ [][NextHR]_vars


\* ------------------------------- PATCH /requests/:id approved, step by step
\* Each await of the approved branch is a step of its own, so the reads and
\* writes of two calls interleave. A call keeps what it read (asset, hrUser)
\* and writes values computed from that.

\* $set: { availableQuantity: asset.availableQuantity - 1 }
decreasedQuantity_Inc(read, stored) == stored - 1

decreasedQuantity(read, stored) == read - 1

\* $set: { currentEmployees: currentEmployees + 1 }
increasedEmployees_Inc(read, stored) == stored + 1

increasedEmployees(read, stored) == read + 1

answer(c, statusCode, code) ==
  calls' = [calls EXCEPT ![c].pc = "done", ![c].statusCode = statusCode, ![c].code = code]

goto(c, pc) == calls' = [calls EXCEPT ![c].pc = pc]

\* verifyToken, verifyHR, requestsCollection.findOne and the status check
ReadRequest(c, token, requestId) ==
  /\ calls[c].pc = "idle"
  /\ verifyToken(token)
  /\ verifyHR(token)
  /\ LET call == [calls[c] EXCEPT !.token = token, !.requestId = requestId] IN
     IF requestId \notin 1..Len(requests)
     THEN calls' = [calls EXCEPT ![c] = [call EXCEPT !.pc = "done", !.statusCode = 404,
                                                      !.code = "REQUEST_NOT_FOUND"]]
     ELSE IF notPending(requests[requestId])
     THEN calls' = [calls EXCEPT ![c] = [call EXCEPT !.pc = "done", !.statusCode = 400,
                                                      !.code = "INVALID_STATE"]]
     ELSE calls' = [calls EXCEPT ![c] = [call EXCEPT !.pc = "asset"]]
  /\ UNCHANGED <<store, ledger, res>>

\* const asset = await assetsCollection.findOne({ _id: request.assetId })
ReadAsset(c) ==
  /\ calls[c].pc = "asset"
  /\ LET asset == findAsset(requests[calls[c].requestId].assetId) IN
     IF noAvailableQuantity(asset)
     THEN answer(c, 400, "NO_AVAILABLE_QUANTITY")
     ELSE calls' = [calls EXCEPT ![c].pc = "hrUser",
                                 ![c].availableQuantity = asset.availableQuantity]
  /\ UNCHANGED <<store, ledger, res>>

\* const hrUser = await usersCollection.findOne({ email: request.hrEmail })
ReadHR(c) ==
  /\ calls[c].pc = "hrUser"
  /\ LET hrUser == findUser(requests[calls[c].requestId].hrEmail) IN
     IF hrUser.role = "none"
     THEN answer(c, 404, "HR_NOT_FOUND")
     ELSE calls' = [calls EXCEPT ![c].pc = "affiliation",
                                 ![c].packageLimit = hrUser.packageLimit,
                                 ![c].currentEmployees = hrUser.currentEmployees]
  /\ UNCHANGED <<store, ledger, res>>

\* const existingAffiliation = await affiliationsCollection.findOne(...), and the
\* package limit check on the hrUser read before
ReadAffiliation(c) ==
  /\ calls[c].pc = "affiliation"
  /\ LET request == requests[calls[c].requestId]
         existingAffiliation == ActiveAffiliations(request.employeeEmail, request.companyName)
     IN
     IF ~notAffiliated(existingAffiliation)
     THEN goto(c, "assignment")
     ELSE IF packageLimitReached(calls[c].packageLimit, calls[c].currentEmployees)
     THEN answer(c, 403, "PACKAGE_LIMIT")
     ELSE goto(c, "insertAffiliation")
  /\ UNCHANGED <<store, ledger, res>>

\* await affiliationsCollection.insertOne({...})
InsertAffiliation(c) ==
  /\ calls[c].pc = "insertAffiliation"
  /\ LET request == requests[calls[c].requestId] IN
     IF DuplicateKey(request.employeeEmail, request.companyName)
     THEN /\ answer(c, 500, "SERVER_ERROR")
          /\ UNCHANGED affiliations
     ELSE /\ affiliations' = Append(affiliations,
                                    [employeeEmail |-> request.employeeEmail,
                                     hrEmail |-> request.hrEmail,
                                     companyName |-> request.companyName,
                                     status |-> "active"])
          /\ goto(c, "currentEmployees")
  /\ UNCHANGED <<users, assets, requests, assignments, ledger, res>>

\* await usersCollection.updateOne({ email: request.hrEmail }, { $set: { currentEmployees } })
WriteEmployees(c) ==
  /\ calls[c].pc = "currentEmployees"
  /\ LET hr == requests[calls[c].requestId].hrEmail IN
     users' = [users EXCEPT ![hr].currentEmployees =
                 increasedEmployees(calls[c].currentEmployees, @)]
  /\ goto(c, "assignment")
  /\ UNCHANGED <<assets, requests, assignments, affiliations, ledger, res>>

\* await assetAssignmentsCollection.insertOne(assignment)
InsertAssignment(c) ==
  /\ calls[c].pc = "assignment"
  /\ Len(assignments) < MaxAssignments
  /\ assignments' = Append(assignments, approvalAssignment(requests[calls[c].requestId]))
  /\ goto(c, "availableQuantity")
  /\ UNCHANGED <<users, assets, requests, affiliations, ledger, res>>

\* await assetsCollection.updateOne({ _id: request.assetId }, { $set: { availableQuantity } })
WriteQuantity(c) ==
  /\ calls[c].pc = "availableQuantity"
  /\ LET assetId == requests[calls[c].requestId].assetId IN
     assets' = IF findAsset(assetId).exists
               THEN [assets EXCEPT ![assetId].availableQuantity =
                       decreasedQuantity(calls[c].availableQuantity, @)]
               ELSE assets
  /\ goto(c, "request")
  /\ UNCHANGED <<users, requests, assignments, affiliations, ledger, res>>

\* await requestsCollection.updateOne({ _id }, { $set: updateData }); res.json
WriteRequest(c) ==
  /\ calls[c].pc = "request"
  /\ requests' = [requests EXCEPT ![calls[c].requestId] =
                     [@ EXCEPT !.status = "approved", !.approvalDate = "date"]]
  /\ answer(c, 200, "OK")
  /\ UNCHANGED <<users, assets, assignments, affiliations, ledger, res>>

\* h1's asset with all its units available and a pending request of each
\* employee for it
InitApprovals ==
  /\ \E packageLimit \in SignupLimits :
        users = [e \in UserEmails |-> newUser(e, IF e = "h1" THEN packageLimit ELSE 0)]
  /\ \E q \in 1..MaxQuantity :
        assets = <<[exists |-> TRUE, hrEmail |-> "h1", companyName |-> CompanyOf("h1"),
                    productQuantity |-> q, availableQuantity |-> q]>>
  /\ requests = [i \in 1..2 |->
                   [assetId |-> 1,
                    employeeEmail |-> IF i = 1 THEN "e1" ELSE "e2",
                    hrEmail |-> "h1",
                    companyName |-> CompanyOf("h1"),
                    status |-> "pending",
                    approvalDate |-> "null",
                    rejectionReason |-> "null"]]
  /\ assignments = <<>>
  /\ affiliations = <<>>
  /\ payments = <<>>
  /\ sessions = <<>>
  /\ calls = [c \in Calls |-> NoCall]
  /\ res = Idle

\* no approval is between two of its awaits
Quiet == \A c \in Calls : calls[c].pc \in {"idle", "done"}

\* two approvals whose awaits interleave, and returns run one at a time before
\* and after them
NextApprovals ==
  \/ \E c \in Calls, token \in HREmails, id \in RequestIds : ReadRequest(c, token, id)
  \/ \E c \in Calls : ReadAsset(c)
  \/ \E c \in Calls : ReadHR(c)
  \/ \E c \in Calls : ReadAffiliation(c)
  \/ \E c \in Calls : InsertAffiliation(c)
  \/ \E c \in Calls : WriteEmployees(c)
  \/ \E c \in Calls : InsertAssignment(c)
  \/ \E c \in Calls : WriteQuantity(c)
  \/ \E c \in Calls : WriteRequest(c)
  \/ /\ res = Idle
     /\ Quiet
     /\ UNCHANGED <<ledger, calls>>
     /\ \E token \in Tokens, id \in AssignmentIds, e \in EmployeeEmails \cup {NoEmail} :
           ReturnAsset(token, id, e)
  \/ Respond

SpecApprovals == InitApprovals /\ [][NextApprovals]_vars

\* ------------------------------------------- requests with a free hrEmail
\* POST /requests takes hrEmail (and with it companyName) from the body as the
\* client sends it, whoever owns the asset
NextRequests ==
  \/ /\ res = Idle
     /\ UNCHANGED calls
     /\ UNCHANGED ledger
     /\ \E token \in Tokens, q \in 0..MaxQuantity : PostAssets(token, q)
  \/ /\ res = Idle
     /\ UNCHANGED calls
     /\ UNCHANGED ledger
     /\ \E token \in Tokens, id \in AssetIds, e \in EmployeeEmails, hr \in HREmails :
           PostRequests(token, id, e, hr)
  \/ /\ res = Idle
     /\ UNCHANGED calls
     /\ UNCHANGED ledger
     /\ \E token \in Tokens, id \in RequestIds, status \in {"approved", "rejected"} :
           PatchRequests(token, id, status)
  \/ Respond

SpecRequests == Init /\ [][NextRequests]_vars

\* ======================================================================
\* Properties
\* ======================================================================
\* a handler takes a request and leaves its answer in res'
Handled(op) == res = Idle /\ res'.op = op

Answered(op, code) == res.op = op /\ res.code = code

ByHR(token) == verifyToken(token) /\ verifyHR(token)

Stored(id, collection) == id \in 1..Len(collection)

\* ---------------------------------------------------------------------
\* C1: with handlers run one at a time, every stored asset always has
\* 0 <= availableQuantity <= productQuantity.
C1_QuantityWithinBounds ==
  \A i \in 1..Len(assets) :
     /\ 0 <= assets[i].availableQuantity
     /\ assets[i].availableQuantity <= assets[i].productQuantity

\* an asset of quantity 2 is back at its full quantity after one approval, one
\* direct assignment and the return of both assignments
C1_Witness ==
  /\ Answered("PATCH /assigned-assets/return", "OK")
  /\ \E i \in 1..Len(assets) :
        assets[i].exists /\ assets[i].productQuantity = 2 /\ assets[i].availableQuantity = 2
  /\ Len(requests) = 1 /\ requests[1].status = "approved"
  /\ Len(assignments) = 2
  /\ \A j \in 1..Len(assignments) : assignments[j].status = "returned"

\* ---------------------------------------------------------------------
\* C2: there are never two pending requests of the same employee for the same
\* asset; a POST /requests naming a pair that already has a pending request
\* stores nothing, and answers 400 DUPLICATE_REQUEST when it gets as far as the
\* duplicate check (caller is the employee, asset exists with quantity > 0).
C2_NoTwoPending ==
  \A i, j \in 1..Len(requests) :
     (/\ i /= j
      /\ requests[i].status = "pending"
      /\ requests[j].status = "pending"
      /\ requests[i].employeeEmail = requests[j].employeeEmail)
     => requests[i].assetId /= requests[j].assetId

C2_DuplicateStep ==
  (Handled("POST /requests") /\ existingRequest(res'.id, res'.email))
  => /\ UNCHANGED store
     /\ (/\ verifyToken(res'.token)
         /\ res'.token = res'.email
         /\ findAsset(res'.id).exists
         /\ findAsset(res'.id).availableQuantity > 0)
        => (res'.statusCode = 400 /\ res'.code = "DUPLICATE_REQUEST")

C2_NoDuplicatePending == [](C2_NoTwoPending) /\ [][C2_DuplicateStep]_vars

C2_Witness ==
  /\ Answered("POST /requests", "DUPLICATE_REQUEST")
  /\ existingRequest(res.id, res.email)

\* ---------------------------------------------------------------------
\* C3: approving a pending request whose asset has availableQuantity = 0 is
\* answered 400 NO_AVAILABLE_QUANTITY and no document changes.
C3_Case(token, requestId) ==
  /\ ByHR(token)
  /\ Stored(requestId, requests)
  /\ requests[requestId].status = "pending"
  /\ findAsset(requests[requestId].assetId).exists
  /\ findAsset(requests[requestId].assetId).availableQuantity = 0

C3_Step ==
  (Handled("PATCH /requests") /\ res'.arg = "approved" /\ C3_Case(res'.token, res'.id))
  => /\ res'.statusCode = 400
     /\ res'.code = "NO_AVAILABLE_QUANTITY"
     /\ UNCHANGED store

C3_ApproveWithoutQuantityFails == [][C3_Step]_vars

C3_Witness ==
  /\ Answered("PATCH /requests", "NO_AVAILABLE_QUANTITY")
  /\ res.arg = "approved"
  /\ C3_Case(res.token, res.id)

\* ---------------------------------------------------------------------
\* C4 as claimed, for an assignment that exists: a return by an authenticated
\* caller who is not the assignment's employee is always answered
\* 403 FORBIDDEN and changes nothing, whether the assignment is assigned or
\* already returned.
C4_NotAssignee(token, assignmentId) ==
  /\ verifyToken(token)
  /\ Stored(assignmentId, assignments) => assignments[assignmentId].employeeEmail /= token

C4_Call ==
  /\ Handled("PATCH /assigned-assets/return")
  /\ res'.email /= NoEmail
  /\ C4_NotAssignee(res'.token, res'.id)

C4_AlwaysForbidden ==
  [][(C4_Call /\ Stored(res'.id, assignments))
     => (res'.statusCode = 403 /\ res'.code = "FORBIDDEN" /\ UNCHANGED store)]_vars

\* C4 as amended: such a return never changes anything; it is answered
\* 404 ASSIGNMENT_NOT_FOUND when there is no such assignment, 400 INVALID_STATE
\* when the assignment is already returned, and 403 FORBIDDEN when it is assigned.
C4_Step ==
  C4_Call
  => /\ UNCHANGED store
     /\ IF ~Stored(res'.id, assignments)
        THEN res'.statusCode = 404 /\ res'.code = "ASSIGNMENT_NOT_FOUND"
        ELSE IF assignments[res'.id].status = "returned"
        THEN res'.statusCode = 400 /\ res'.code = "INVALID_STATE"
        ELSE res'.statusCode = 403 /\ res'.code = "FORBIDDEN"

C4_ForeignReturnRefused == [][C4_Step]_vars

C4_Witness ==
  /\ Answered("PATCH /assigned-assets/return", "FORBIDDEN")
  /\ Stored(res.id, assignments)
  /\ assignments[res.id].status = "assigned"
  /\ assignments[res.id].employeeEmail = res.email
  /\ res.token /= res.email

\* ---------------------------------------------------------------------
\* C5: an approved or rejected request keeps its status for ever, and a PATCH
\* /requests/:id by an HR on it is answered 400 INVALID_STATE with no change.
C5_Step ==
  /\ \A i \in 1..Len(requests) :
        requests[i].status /= "pending"
        => (Stored(i, requests') /\ requests'[i].status = requests[i].status)
  /\ (/\ Handled("PATCH /requests")
      /\ ByHR(res'.token)
      /\ Stored(res'.id, requests)
      /\ requests[res'.id].status /= "pending")
     => (res'.statusCode = 400 /\ res'.code = "INVALID_STATE" /\ UNCHANGED store)

C5_DecidedRequestIsFinal == [][C5_Step]_vars

C5_Witness ==
  /\ Answered("PATCH /requests", "INVALID_STATE")
  /\ res.arg = "approved"
  /\ requests[res.id].status = "approved"
  /\ \E j \in 1..Len(requests) : requests[j].status = "rejected"
\* ---------------------------------------------------------------------
\* C6: a successful approval lowers the requested asset's availableQuantity
\* by exactly 1, appends exactly one assignment (status assigned, the
\* request's employee and asset), and marks the request approved with an
\* approval date; no other request or assignment changes.
C6_Step ==
  (Handled("PATCH /requests") /\ res'.arg = "approved" /\ res'.statusCode = 200)
  => LET id      == res'.id
         request == requests[id]
         n       == Len(assignments)
     IN
     /\ request.status = "pending"
     /\ findAsset(request.assetId).availableQuantity > 0
     /\ assets' = [assets EXCEPT ![request.assetId].availableQuantity = @ - 1]
     /\ Len(assignments') = n + 1
     /\ \A i \in 1..n : assignments'[i] = assignments[i]
     /\ assignments'[n + 1].status = "assigned"
     /\ assignments'[n + 1].employeeEmail = request.employeeEmail
     /\ assignments'[n + 1].assetId = request.assetId
     /\ requests' = [requests EXCEPT ![id] =
                       [@ EXCEPT !.status = "approved", !.approvalDate = "date"]]
     /\ request.approvalDate = "null"

C6_ApprovalEffect == [][C6_Step]_vars

C6_Witness ==
  /\ Answered("PATCH /requests", "OK")
  /\ res.arg = "approved"
  /\ requests[res.id].status = "approved"
  /\ requests[res.id].approvalDate = "date"
  /\ \E i \in 1..Len(assets) : assets[i].exists /\ assets[i].availableQuantity = 1

\* ---------------------------------------------------------------------
\* C7 as claimed: when the request's HR has packageLimit > 0 and
\* currentEmployees >= packageLimit, approving a pending request of an
\* employee without active affiliation is answered 403 PACKAGE_LIMIT and
\* changes nothing.
C7_Case(token, requestId) ==
  /\ ByHR(token)
  /\ Stored(requestId, requests)
  /\ requests[requestId].status = "pending"
  /\ users[requests[requestId].hrEmail].packageLimit > 0
  /\ users[requests[requestId].hrEmail].currentEmployees
        >= users[requests[requestId].hrEmail].packageLimit
  /\ ActiveAffiliations(requests[requestId].employeeEmail,
                        requests[requestId].companyName) = {}

C7_Call == Handled("PATCH /requests") /\ res'.arg = "approved" /\ C7_Case(res'.token, res'.id)

C7_AlwaysPackageLimit ==
  [][C7_Call => (res'.statusCode = 403 /\ res'.code = "PACKAGE_LIMIT" /\ UNCHANGED store)]_vars

\* C7 as amended: such an approval changes nothing; it is answered
\* 403 PACKAGE_LIMIT provided the requested asset still exists with
\* availableQuantity > 0, and 400 NO_AVAILABLE_QUANTITY otherwise.
C7_Step ==
  C7_Call
  => /\ UNCHANGED store
     /\ IF noAvailableQuantity(findAsset(requests[res'.id].assetId))
        THEN res'.statusCode = 400 /\ res'.code = "NO_AVAILABLE_QUANTITY"
        ELSE res'.statusCode = 403 /\ res'.code = "PACKAGE_LIMIT"

C7_PackageLimitRefuses == [][C7_Step]_vars

C7_Witness ==
  /\ Answered("PATCH /requests", "PACKAGE_LIMIT")
  /\ C7_Case(res.token, res.id)
  /\ findAsset(requests[res.id].assetId).availableQuantity > 0
  /\ Len(affiliations) = 1

\* ---------------------------------------------------------------------
\* C8 as claimed: a PATCH /requests/:id issued by an HR other than the hrEmail
\* of the requested asset (and of the request) is refused and changes nothing.
C8_OtherHR(token, requestId) ==
  /\ ByHR(token)
  /\ Stored(requestId, requests)
  /\ findAsset(requests[requestId].assetId).exists
  /\ token /= findAsset(requests[requestId].assetId).hrEmail
  /\ token /= requests[requestId].hrEmail

C8_OnlyOwningHRDecides ==
  [][(Handled("PATCH /requests") /\ C8_OtherHR(res'.token, res'.id))
     => (res'.statusCode /= 200 /\ UNCHANGED store)]_vars

\* ---------------------------------------------------------------------
\* C9 as claimed: once an employee's affiliation with a company is inactive,
\* approving a later pending request of that employee for that company
\* succeeds and leaves the affiliation active, given quantity and package
\* limit permit.
InactiveAffiliations(employeeEmail, companyName) ==
  {i \in 1..Len(affiliations) :
      /\ affiliations[i].employeeEmail = employeeEmail
      /\ affiliations[i].companyName = companyName
      /\ affiliations[i].status = "inactive"}

C9_Case(token, requestId) ==
  /\ ByHR(token)
  /\ Stored(requestId, requests)
  /\ requests[requestId].status = "pending"
  /\ ~noAvailableQuantity(findAsset(requests[requestId].assetId))
  /\ ~packageLimitReached(users[requests[requestId].hrEmail].packageLimit,
                          users[requests[requestId].hrEmail].currentEmployees)
  /\ InactiveAffiliations(requests[requestId].employeeEmail,
                          requests[requestId].companyName) /= {}
  /\ ActiveAffiliations(requests[requestId].employeeEmail,
                        requests[requestId].companyName) = {}

C9_ApprovalReactivates ==
  [][(Handled("PATCH /requests") /\ res'.arg = "approved" /\ C9_Case(res'.token, res'.id))
     => /\ res'.statusCode = 200
        /\ requests'[res'.id].status = "approved"
        /\ \E i \in 1..Len(affiliations') :
              /\ affiliations'[i].employeeEmail = requests[res'.id].employeeEmail
              /\ affiliations'[i].companyName = requests[res'.id].companyName
              /\ affiliations'[i].status = "active"]_vars

\* ---------------------------------------------------------------------
\* C10: there is at most one affiliation document per (employeeEmail,
\* companyName), active and inactive ones counted alike.
C10_OneAffiliationPerPair ==
  \A i, j \in 1..Len(affiliations) :
     (/\ affiliations[i].employeeEmail = affiliations[j].employeeEmail
      /\ affiliations[i].companyName = affiliations[j].companyName)
     => i = j

\* an approval for a pair whose only affiliation is inactive has just hit the index
C10_Witness ==
  /\ Answered("PATCH /requests", "SERVER_ERROR")
  /\ requests[res.id].status = "pending"
  /\ InactiveAffiliations(requests[res.id].employeeEmail, requests[res.id].companyName) /= {}

\* ---------------------------------------------------------------------
\* the HR recorded in the active affiliation of (employeeEmail, companyName)
AffiliationHR(employeeEmail, companyName) ==
  affiliations[CHOOSE i \in ActiveAffiliations(employeeEmail, companyName) : TRUE].hrEmail

\* a removal that has succeeded; res'.id is the number of assignments it returned
Removed == Handled("PATCH /affiliations/remove") /\ res'.statusCode = 200

\* C11 as claimed: a successful PATCH /affiliations/remove that returns k
\* assignments in status assigned lowers the HR's currentEmployees by k.
C11_DecrementPerAssignment ==
  [][Removed
     => LET hr == AffiliationHR(res'.email, res'.arg) IN
        users'[hr].currentEmployees = users[hr].currentEmployees - res'.id]_vars

\* C11 as amended: a successful PATCH /affiliations/remove sets the affiliation
\* inactive and lowers the HR's currentEmployees by exactly 1 (not below 0),
\* whatever the number k of assignments it returns; no other user changes.
C11_Step ==
  Removed
  => LET hr == AffiliationHR(res'.email, res'.arg) IN
     /\ ActiveAffiliations(res'.email, res'.arg) /= {}
     /\ \A i \in ActiveAffiliations(res'.email, res'.arg) : affiliations'[i].status = "inactive"
     /\ users' = [users EXCEPT ![hr].currentEmployees = Max(0, @ - 1)]
     /\ res'.id = Cardinality(assignedTo(res'.email, res'.arg))

C11_DecrementOncePerRemoval == [][C11_Step]_vars

\* a removal has returned two assignments and the counter went from 1 to 0
C11_Witness ==
  /\ Answered("PATCH /affiliations/remove", "OK")
  /\ res.id = 2
  /\ \E i \in 1..Len(affiliations) :
        /\ affiliations[i].employeeEmail = res.email
        /\ affiliations[i].companyName = res.arg
        /\ affiliations[i].status = "inactive"
        /\ users[affiliations[i].hrEmail].currentEmployees = 0

\* ---------------------------------------------------------------------
\* C12: a successful PATCH /affiliations/remove for an active (employee,
\* company) affiliation sets every assignment of that employee in that company
\* with status assigned to returned, adds 1 to the availableQuantity of the
\* asset of each such assignment (once per assignment), sets the affiliation
\* inactive and sets the HR's currentEmployees to max(0, currentEmployees - 1);
\* every other assignment and affiliation is left as it was.
C12_Step ==
  Removed
  => LET e  == res'.email
         c  == res'.arg
         hr == AffiliationHR(e, c)
         mine(i) == /\ assignments[i].employeeEmail = e
                    /\ assignments[i].companyName = c
                    /\ assignments[i].status = "assigned"
     IN
     /\ Len(assignments') = Len(assignments)
     /\ \A i \in 1..Len(assignments) :
           IF mine(i)
           THEN assignments'[i] = [assignments[i] EXCEPT !.status = "returned",
                                                         !.returnDate = "date"]
           ELSE assignments'[i] = assignments[i]
     /\ Len(assets') = Len(assets)
     /\ \A k \in 1..Len(assets) :
           assets'[k] = [assets[k] EXCEPT !.availableQuantity =
                           @ + Cardinality({i \in 1..Len(assignments) :
                                              mine(i) /\ assignments[i].assetId = k})]
     /\ Len(affiliations') = Len(affiliations)
     /\ \A i \in 1..Len(affiliations) :
           IF /\ affiliations[i].employeeEmail = e
              /\ affiliations[i].companyName = c
           THEN /\ affiliations[i].status = "active"
                /\ affiliations'[i] = [affiliations[i] EXCEPT !.status = "inactive"]
           ELSE affiliations'[i] = affiliations[i]
     /\ users'[hr].currentEmployees = Max(0, users[hr].currentEmployees - 1)
     /\ UNCHANGED requests

C12_RemovalEffect == [][C12_Step]_vars

\* a removal has returned the employee's assignment while a colleague's
\* assignment in the same company stays assigned
C12_Witness ==
  /\ Answered("PATCH /affiliations/remove", "OK")
  /\ res.id = 1
  /\ \E i, j \in 1..Len(assignments) :
        /\ assignments[i].employeeEmail = res.email
        /\ assignments[i].companyName = res.arg
        /\ assignments[i].status = "returned"
        /\ assignments[j].employeeEmail /= res.email
        /\ assignments[j].companyName = res.arg
        /\ assignments[j].status = "assigned"
        /\ findAsset(assignments[i].assetId).availableQuantity = 1

\* ---------------------------------------------------------------------
\* C13: a return by the assignee of an assignment in status assigned succeeds,
\* sets that assignment to returned with a return date and adds exactly 1 to
\* the availableQuantity of its asset; no other asset, assignment, request,
\* affiliation or user changes.
C13_Case(token, assignmentId, employeeEmail) ==
  /\ verifyToken(token)
  /\ token = employeeEmail
  /\ Stored(assignmentId, assignments)
  /\ assignments[assignmentId].employeeEmail = employeeEmail
  /\ assignments[assignmentId].status = "assigned"

C13_Step ==
  (Handled("PATCH /assigned-assets/return") /\ C13_Case(res'.token, res'.id, res'.email))
  => LET assignment == assignments[res'.id] IN
     /\ res'.statusCode = 200
     /\ assignment.returnDate = "null"
     /\ assignments' = [assignments EXCEPT ![res'.id] =
                          [@ EXCEPT !.status = "returned", !.returnDate = "date"]]
     /\ findAsset(assignment.assetId).exists
     /\ assets' = [assets EXCEPT ![assignment.assetId].availableQuantity = @ + 1]
     /\ UNCHANGED <<users, requests, affiliations>>

C13_ReturnEffect == [][C13_Step]_vars

\* the assignee has returned one of two assignments; the other is still assigned
C13_Witness ==
  /\ Answered("PATCH /assigned-assets/return", "OK")
  /\ assignments[res.id].status = "returned"
  /\ assignments[res.id].returnDate = "date"
  /\ assignments[res.id].employeeEmail = res.token
  /\ \E j \in 1..Len(assignments) : assignments[j].status = "assigned"
  /\ findAsset(assignments[res.id].assetId).availableQuantity = 1

\* ---------------------------------------------------------------------
\* C14: an assignment in status returned stays returned in every step, and a
\* return request on it (authenticated caller, employeeEmail given) is answered
\* 400 INVALID_STATE and changes no document, so the asset's availableQuantity
\* stays as it was.
C14_Step ==
  /\ \A i \in 1..Len(assignments) :
        assignments[i].status = "returned"
        => (Stored(i, assignments') /\ assignments'[i] = assignments[i])
  /\ (/\ Handled("PATCH /assigned-assets/return")
      /\ verifyToken(res'.token)
      /\ res'.email /= NoEmail
      /\ Stored(res'.id, assignments)
      /\ assignments[res'.id].status = "returned")
     => (res'.statusCode = 400 /\ res'.code = "INVALID_STATE" /\ UNCHANGED store)

C14_ReturnedIsFinal == [][C14_Step]_vars

\* the assignee asks a second time for the return of an assignment
C14_Witness ==
  /\ Answered("PATCH /assigned-assets/return", "INVALID_STATE")
  /\ assignments[res.id].status = "returned"
  /\ assignments[res.id].employeeEmail = res.token
  /\ res.email = res.token

\* ---------------------------------------------------------------------
\* C15: rejecting a pending request changes that request only (status
\* rejected, rejectionReason set); no asset, assignment, affiliation or user
\* document is created or modified, and no other request changes.
C15_Step ==
  (/\ Handled("PATCH /requests")
   /\ res'.arg = "rejected"
   /\ ByHR(res'.token)
   /\ Stored(res'.id, requests)
   /\ requests[res'.id].status = "pending")
  => /\ res'.statusCode = 200
     /\ requests' = [requests EXCEPT ![res'.id] =
                       [@ EXCEPT !.status = "rejected", !.rejectionReason = ""]]
     /\ requests[res'.id].rejectionReason = "null"
     /\ UNCHANGED <<users, assets, assignments, affiliations>>

C15_RejectionEffect == [][C15_Step]_vars

\* a request has been rejected while its asset is partly assigned
C15_Witness ==
  /\ Answered("PATCH /requests", "OK")
  /\ res.arg = "rejected"
  /\ requests[res.id].status = "rejected"
  /\ requests[res.id].rejectionReason = ""
  /\ \E j \in 1..Len(assignments) : assignments[j].status = "assigned"
  /\ \E i \in 1..Len(affiliations) : affiliations[i].status = "active"

\* ---------------------------------------------------------------------
\* the three cases of a POST /assign-asset call by an HR that C16 names
Affiliated(employeeEmail, companyName) ==
  \E i \in 1..Len(affiliations) :
      /\ affiliations[i].employeeEmail = employeeEmail
      /\ affiliations[i].companyName = companyName
      /\ affiliations[i].status = "active"

Holds(employeeEmail, assetId) ==
  \E i \in 1..Len(assignments) :
      /\ assignments[i].employeeEmail = employeeEmail
      /\ assignments[i].assetId = assetId
      /\ assignments[i].status = "assigned"

C16_Call == Handled("POST /assign-asset") /\ ByHR(res'.token)

\* C16 as claimed, for an employee who is actively affiliated with the given
\* company: when the asset's availableQuantity is 0 the call is answered
\* 400 NO_AVAILABLE_QUANTITY, when the employee already holds an assigned
\* assignment of the asset it is answered 400 ALREADY_ASSIGNED, and nothing
\* changes in either case.
C16_EachCaseItsCode ==
  [][(C16_Call /\ Affiliated(res'.email, res'.arg) /\ findAsset(res'.id).exists)
     => /\ findAsset(res'.id).availableQuantity = 0
           => (res'.statusCode = 400 /\ res'.code = "NO_AVAILABLE_QUANTITY" /\ UNCHANGED store)
        /\ Holds(res'.email, res'.id)
           => (res'.statusCode = 400 /\ res'.code = "ALREADY_ASSIGNED" /\ UNCHANGED store)]_vars

\* C16 as amended: a POST /assign-asset by an HR changes nothing in any of the
\* three cases, and the answer is that of the first check that fails, in the
\* order: no active affiliation (403 NOT_AFFILIATED), no such asset
\* (404 ASSET_NOT_FOUND), availableQuantity 0 (400 NO_AVAILABLE_QUANTITY),
\* assignment already held (400 ALREADY_ASSIGNED).
C16_Step ==
  C16_Call
  => LET e == res'.email
         c == res'.arg
         asset == findAsset(res'.id)
         refused(statusCode, code) ==
           res'.statusCode = statusCode /\ res'.code = code /\ UNCHANGED store
     IN
     IF ~Affiliated(e, c) THEN refused(403, "NOT_AFFILIATED")
     ELSE IF ~asset.exists THEN refused(404, "ASSET_NOT_FOUND")
     ELSE IF asset.availableQuantity = 0 THEN refused(400, "NO_AVAILABLE_QUANTITY")
     ELSE IF Holds(e, res'.id) THEN refused(400, "ALREADY_ASSIGNED")
     ELSE TRUE

C16_AssignRefusals == [][C16_Step]_vars

\* the HR assigns again an asset the employee holds, with one unit left
C16_Witness ==
  /\ Answered("POST /assign-asset", "ALREADY_ASSIGNED")
  /\ Affiliated(res.email, res.arg)
  /\ Holds(res.email, res.id)
  /\ findAsset(res.id).availableQuantity = 1

\* ---------------------------------------------------------------------
\* C17: a successful POST /assign-asset appends exactly one assignment in
\* status assigned (the assignment an approval of the same employee, asset and
\* company would append), lowers the asset's availableQuantity by exactly 1,
\* and changes no request, no affiliation and no user, so no currentEmployees.
C17_Step ==
  (Handled("POST /assign-asset") /\ res'.statusCode = 201)
  => LET n == Len(assignments) IN
     /\ findAsset(res'.id).availableQuantity > 0
     /\ assets' = [assets EXCEPT ![res'.id].availableQuantity = @ - 1]
     /\ Len(assignments') = n + 1
     /\ \A i \in 1..n : assignments'[i] = assignments[i]
     /\ assignments'[n + 1].status = "assigned"
     /\ assignments'[n + 1] = approvalAssignment([assetId |-> res'.id,
                                                   employeeEmail |-> res'.email,
                                                   hrEmail |-> res'.token,
                                                   companyName |-> res'.arg])
     /\ UNCHANGED <<requests, affiliations, users>>

C17_DirectAssignmentEffect == [][C17_Step]_vars

\* a direct assignment has followed an approval and a return
C17_Witness ==
  /\ Answered("POST /assign-asset", "OK")
  /\ Len(assignments) = 2
  /\ assignments[1].status = "returned"
  /\ assignments[2].status = "assigned"
  /\ assignments[2].employeeEmail = res.email
  /\ findAsset(res.id).availableQuantity = findAsset(res.id).productQuantity - 1

\* ---------------------------------------------------------------------
\* a POST /requests call by an authenticated caller
C18_Call == Handled("POST /requests") /\ verifyToken(res'.token)

\* C18: the call stores a request only if the asset exists with
\* availableQuantity > 0 and the token email equals employeeEmail, and what it
\* stores is one new pending request of that employee for that asset;
\* otherwise it stores nothing and answers 403 FORBIDDEN, 404 ASSET_NOT_FOUND
\* or 400 NO_AVAILABLE_QUANTITY; when several conditions fail at once the
\* answer is that of the first one in this order.
C18_Step ==
  C18_Call
  => LET asset == findAsset(res'.id)
         n == Len(requests)
         refused(statusCode, code) ==
           res'.statusCode = statusCode /\ res'.code = code /\ UNCHANGED store
     IN
     /\ UNCHANGED <<users, assets, assignments, affiliations>>
     /\ IF res'.token /= res'.email THEN refused(403, "FORBIDDEN")
        ELSE IF ~asset.exists THEN refused(404, "ASSET_NOT_FOUND")
        ELSE IF asset.availableQuantity = 0 THEN refused(400, "NO_AVAILABLE_QUANTITY")
        ELSE \/ UNCHANGED requests
             \/ /\ res'.statusCode = 201
                /\ Len(requests') = n + 1
                /\ \A i \in 1..n : requests'[i] = requests[i]
                /\ requests'[n + 1].status = "pending"
                /\ requests'[n + 1].assetId = res'.id
                /\ requests'[n + 1].employeeEmail = res'.token

C18_RequestPreconditions == [][C18_Step]_vars

\* an employee's request for an asset with no unit left has been refused
C18_Witness ==
  /\ Answered("POST /requests", "NO_AVAILABLE_QUANTITY")
  /\ res.token = res.email
  /\ findAsset(res.id).exists
  /\ findAsset(res.id).availableQuantity = 0
  /\ Len(requests) = 1

\* ---------------------------------------------------------------------
\* C20: approving a pending request of an employee who is actively affiliated
\* with the request's company creates no affiliation and leaves every user's
\* currentEmployees as it was; it is never answered 403 PACKAGE_LIMIT, and it
\* succeeds whenever the asset has availableQuantity > 0, also when the HR's
\* currentEmployees has reached a positive packageLimit.
C20_Case(token, requestId) ==
  /\ ByHR(token)
  /\ Stored(requestId, requests)
  /\ requests[requestId].status = "pending"
  /\ Affiliated(requests[requestId].employeeEmail, requests[requestId].companyName)

C20_LimitReached(requestId) ==
  /\ users[requests[requestId].hrEmail].packageLimit > 0
  /\ users[requests[requestId].hrEmail].currentEmployees
        >= users[requests[requestId].hrEmail].packageLimit

C20_Step ==
  (Handled("PATCH /requests") /\ res'.arg = "approved" /\ C20_Case(res'.token, res'.id))
  => /\ UNCHANGED <<affiliations, users>>
     /\ res'.code /= "PACKAGE_LIMIT"
     /\ findAsset(requests[res'.id].assetId).availableQuantity > 0
           => (res'.statusCode = 200 /\ requests'[res'.id].status = "approved")

C20_AffiliatedApproval == [][C20_Step]_vars

\* a second request of the only employee of an HR with packageLimit 1 has been
\* approved
C20_Witness ==
  /\ Answered("PATCH /requests", "OK")
  /\ res.arg = "approved"
  /\ C20_LimitReached(res.id)
  /\ Len(affiliations) = 1
  /\ affiliations[1].status = "active"
  /\ affiliations[1].employeeEmail = requests[res.id].employeeEmail
  /\ Len(assignments) = 2

\* ---------------------------------------------------------------------
\* the affiliations in status active whose hrEmail is the given HR
AffiliatedWith(hr) ==
  {i \in 1..Len(affiliations) :
      affiliations[i].hrEmail = hr /\ affiliations[i].status = "active"}

\* C19 as claimed: for every HR whose packageLimit is greater than 0, the
\* number of employees actively affiliated with that HR is at most
\* packageLimit in every state reached by approvals, affiliation removals and
\* profile edits run one at a time.
C19_AffiliatedWithinLimit ==
  \A hr \in HREmails :
     users[hr].packageLimit > 0
     => Cardinality(AffiliatedWith(hr)) <= users[hr].packageLimit

\* ---------------------------------------------------------------------
\* the payment records of an HR
PaymentsOf(hr) == {i \in 1..Len(payments) : payments[i].hrEmail = hr}

\* C21: a POST /create-checkout-session by an HR who has at least one payment
\* record creates no checkout session and changes no document; when it names
\* the caller's own hrEmail it is answered 409 ALREADY_UPGRADED.
C21_Step ==
  (/\ Handled("POST /create-checkout-session")
   /\ ByHR(res'.token)
   /\ PaymentsOf(res'.token) /= {})
  => /\ UNCHANGED <<store, ledger>>
     /\ res'.email = res'.token
        => (res'.statusCode = 409 /\ res'.code = "ALREADY_UPGRADED")
     /\ res'.statusCode /= 200

C21_SingleUpgrade == [][C21_Step]_vars

\* an HR whose payment is recorded asks for a checkout of a package in the catalog
C21_Witness ==
  /\ Answered("POST /create-checkout-session", "ALREADY_UPGRADED")
  /\ res.arg \in Packages
  /\ PaymentsOf(res.token) /= {}

\* ---------------------------------------------------------------------
\* a confirmation that has succeeded; res'.id is the session
Confirmed == Handled("POST /confirm-payment") /\ res'.statusCode = 200

\* C22 as claimed: a successful POST /confirm-payment sets the HR's
\* subscription to the name of the session's package.
C22_SubscriptionIsPackageName ==
  [][Confirmed => users'[res'.token].subscription = sessions[res'.id].packageName]_vars

\* C22 as amended: a POST /confirm-payment for a paid session whose hrEmail is
\* the calling HR succeeds; a successful one sets that HR's packageLimit to 5
\* plus the employee allotment of the session's package, sets the subscription
\* to the package name in lower case and appends exactly one payment record;
\* it changes no other user and no asset, request, assignment or affiliation.
C22_Step ==
  /\ (/\ Handled("POST /confirm-payment")
      /\ ByHR(res'.token)
      /\ Stored(res'.id, sessions)
      /\ sessions[res'.id].payment_status = "paid"
      /\ sessions[res'.id].hrEmail = res'.token)
     => res'.statusCode = 200
  /\ Confirmed
     => LET session == sessions[res'.id]
            n == Len(payments)
        IN
        /\ session.payment_status = "paid"
        /\ session.hrEmail = res'.token
        /\ users' = [users EXCEPT
                       ![res'.token].packageLimit = 5 + employeeLimit(session.packageName),
                       ![res'.token].subscription = toLowerCase(session.packageName)]
        /\ Len(payments') = n + 1
        /\ \A i \in 1..n : payments'[i] = payments[i]
        /\ payments'[n + 1].hrEmail = res'.token
        /\ payments'[n + 1].packageName = session.packageName
        /\ UNCHANGED <<assets, requests, assignments, affiliations, sessions>>

C22_ConfirmationEffect == [][C22_Step]_vars

\* an HR with an approved request has confirmed the payment of Standard
C22_Witness ==
  /\ Answered("POST /confirm-payment", "OK")
  /\ users[res.token].packageLimit = 15
  /\ users[res.token].subscription = "standard"
  /\ Len(payments) = 1
  /\ \E i \in 1..Len(requests) : requests[i].status = "approved"
  /\ \E u \in HREmails : users[u].subscription = "undefined"

\* ---------------------------------------------------------------------
\* the session already has a payment record: it was confirmed before
Replayed(sessionId) ==
  \E i \in 1..Len(payments) : payments[i].transactionId = sessionId

\* C23 as claimed: a second successful confirmation of the same paid session
\* leaves the HR's packageLimit greater than the first one left it.
C23_RepeatRaisesLimit ==
  [][(Confirmed /\ Replayed(res'.id))
     => users'[res'.token].packageLimit > users[res'.token].packageLimit]_vars

\* C23 as amended: a second successful confirmation of the same paid session
\* leaves the HR's packageLimit and subscription exactly as the first one left
\* them: 5 plus the package's employee allotment.
C23_Step ==
  (Confirmed /\ Replayed(res'.id))
  => /\ users' = users
     /\ users[res'.token].packageLimit = 5 + employeeLimit(sessions[res'.id].packageName)

C23_RepeatKeepsLimit == [][C23_Step]_vars

\* the session of a Premium purchase has been confirmed twice
C23_Witness ==
  /\ Answered("POST /confirm-payment", "OK")
  /\ Len(payments) = 2
  /\ payments[1].transactionId = res.id
  /\ payments[2].transactionId = res.id
  /\ users[res.token].packageLimit = 25

\* ---------------------------------------------------------------------
\* C24: a POST /confirm-payment by the session's HR for a paid session that
\* already has a payment record is not refused: it succeeds and appends one
\* more payment record of that HR for that session, so the HR then has more
\* than one payment record.
C24_Step ==
  (/\ Handled("POST /confirm-payment")
   /\ ByHR(res'.token)
   /\ Stored(res'.id, sessions)
   /\ sessions[res'.id].payment_status = "paid"
   /\ sessions[res'.id].hrEmail = res'.token
   /\ Replayed(res'.id))
  => LET n == Len(payments) IN
     /\ res'.statusCode = 200
     /\ Len(payments') = n + 1
     /\ payments'[n + 1].hrEmail = res'.token
     /\ payments'[n + 1].transactionId = res'.id
     /\ Cardinality({i \in 1..(n + 1) : payments'[i].hrEmail = res'.token}) > 1

C24_NoReplayGuard == [][C24_Step]_vars

\* an HR holds two payment records of one session, and a new checkout is refused
C24_Witness ==
  /\ Answered("POST /create-checkout-session", "ALREADY_UPGRADED")
  /\ Cardinality(PaymentsOf(res.token)) = 2
  /\ \A i \in PaymentsOf(res.token) : payments[i].transactionId = 1

\* ---------------------------------------------------------------------
\* the state-mutating HR-only endpoints
HROnly ==
  {"POST /assets", "PUT /assets", "DELETE /assets", "PATCH /requests",
   "PATCH /affiliations/remove", "POST /assign-asset", "POST /confirm-payment"}

\* C25: a call of a state-mutating HR-only endpoint without a valid token is
\* answered 401, and one whose token email is not a stored user with role hr
\* is answered 403; in both cases no collection changes.
C25_Step ==
  (res = Idle /\ res'.op \in HROnly)
  => LET token == res'.token IN
     /\ (token = NoToken \/ token \notin DOMAIN users)
        => (res'.statusCode = 401 /\ UNCHANGED <<store, ledger>>)
     /\ (token /= NoToken /\ token \in DOMAIN users /\ users[token].role /= "hr")
        => (res'.statusCode = 403 /\ res'.code = "FORBIDDEN" /\ UNCHANGED <<store, ledger>>)

C25_HROnlyEndpoints == [][C25_Step]_vars

\* an employee with a pending request has asked for the confirmation of the
\* paid session
C25_Witness ==
  /\ Answered("POST /confirm-payment", "FORBIDDEN")
  /\ res.token \in EmployeeEmails
  /\ Stored(res.id, sessions)
  /\ sessions[res.id].payment_status = "paid"
  /\ payments = <<>>
  /\ \E i \in 1..Len(requests) :
        requests[i].employeeEmail = res.token /\ requests[i].status = "pending"

\* ---------------------------------------------------------------------
\* the assignments in status assigned that reference the asset
AssignedOf(assetId) ==
  {i \in 1..Len(assignments) :
      assignments[i].assetId = assetId /\ assignments[i].status = "assigned"}

\* both approvals have succeeded, for different requests
BothApproved ==
  /\ \A c \in Calls : calls[c].pc = "done" /\ calls[c].statusCode = 200
  /\ calls[1].requestId /= calls[2].requestId

\* C26: when two approvals of different pending requests for the same asset
\* have both passed the availableQuantity > 0 check on the same value and both
\* succeeded, availableQuantity is that value minus 1 only, while two
\* assignments in status assigned reference the asset: their number exceeds
\* productQuantity - availableQuantity (as long as none has been returned).
C26_LostUpdate ==
  (/\ BothApproved
   /\ calls[1].availableQuantity = calls[2].availableQuantity
   /\ \A i \in 1..Len(assignments) : assignments[i].status = "assigned")
  => /\ assets[1].availableQuantity = calls[1].availableQuantity - 1
     /\ Cardinality(AssignedOf(1)) = 2
     /\ Cardinality(AssignedOf(1)) > assets[1].productQuantity - assets[1].availableQuantity

\* after such a pair of approvals both assignments have been returned, and the
\* asset's availableQuantity is above its productQuantity
C26_Witness ==
  /\ BothApproved
  /\ calls[1].availableQuantity = calls[2].availableQuantity
  /\ Answered("PATCH /assigned-assets/return", "OK")
  /\ assets[1].availableQuantity > assets[1].productQuantity
  /\ Cardinality(AssignedOf(1)) > assets[1].productQuantity - assets[1].availableQuantity

\* ---------------------------------------------------------------------
\* C27: when two approvals for two different employees of the same HR, neither
\* affiliated before, have both passed the package-limit check against the
\* same currentEmployees value and both inserted an affiliation,
\* currentEmployees is that value plus 1 only: the HR's two active
\* affiliations outnumber currentEmployees.
C27_LostIncrement ==
  (/\ BothApproved
   /\ Len(affiliations) = 2
   /\ calls[1].currentEmployees = calls[2].currentEmployees)
  => /\ users["h1"].currentEmployees = calls[1].currentEmployees + 1
     /\ Cardinality(AffiliatedWith("h1")) = 2
     /\ Cardinality(AffiliatedWith("h1")) > users["h1"].currentEmployees

\* such a pair of approvals has left an HR of packageLimit 1 with two actively
\* affiliated employees
C27_Witness ==
  /\ BothApproved
  /\ calls[1].currentEmployees = calls[2].currentEmployees
  /\ users["h1"].packageLimit = 1
  /\ Cardinality(AffiliatedWith("h1")) > users["h1"].packageLimit
  /\ Cardinality(AffiliatedWith("h1")) > users["h1"].currentEmployees

\* ---------------------------------------------------------------------
\* C28: with handlers run one at a time, the availableQuantity of every stored
\* asset equals its productQuantity minus the number of assignments in status
\* assigned that reference it.
C28_AvailableIsUnassigned ==
  \A k \in 1..Len(assets) :
     assets[k].exists
     => assets[k].availableQuantity
          = assets[k].productQuantity - Cardinality(AssignedOf(k))

\* an asset with one unit assigned has had its productQuantity raised from 1 to 2
C28_Witness ==
  /\ Answered("PUT /assets", "OK")
  /\ res.arg = "2"
  /\ assets[res.id].productQuantity = 2
  /\ assets[res.id].availableQuantity = 1
  /\ Cardinality(AssignedOf(res.id)) = 1
  /\ \E i \in 1..Len(assignments) : assignments[i].status = "returned"

\* ---------------------------------------------------------------------
\* C29: a PUT /assets/:id by an HR on a stored asset with a positive
\* productQuantity smaller than the number of assigned assignments of that
\* asset is answered 400 INVALID_QUANTITY and changes nothing; any other
\* productQuantity is accepted, availableQuantity moves by the same difference
\* as productQuantity (floored at 0) and 0 <= availableQuantity <=
\* productQuantity holds afterwards.
C29_Call ==
  /\ Handled("PUT /assets")
  /\ ByHR(res'.token)
  /\ findAsset(res'.id).exists

C29_Step ==
  C29_Call
  => \A productQuantity \in 0..MaxQuantity :
       res'.arg = ToString(productQuantity)
       => LET asset == assets[res'.id]
              updated == assets'[res'.id]
              difference == updated.productQuantity - asset.productQuantity
          IN
          IF productQuantity > 0 /\ productQuantity < Cardinality(AssignedOf(res'.id))
          THEN /\ res'.statusCode = 400
               /\ res'.code = "INVALID_QUANTITY"
               /\ UNCHANGED store
          ELSE /\ res'.statusCode = 200
               /\ updated.productQuantity
                    = (IF productQuantity > 0 THEN productQuantity ELSE asset.productQuantity)
               /\ updated.availableQuantity = Max(0, asset.availableQuantity + difference)
               /\ 0 <= updated.availableQuantity
               /\ updated.availableQuantity <= updated.productQuantity
               /\ assets' = [assets EXCEPT ![res'.id] = updated]
               /\ UNCHANGED <<users, requests, assignments, affiliations>>

C29_QuantityUpdate == [][C29_Step]_vars

\* a productQuantity of 1 has been refused for an asset with two units assigned
C29_Witness ==
  /\ Answered("PUT /assets", "INVALID_QUANTITY")
  /\ ByHR(res.token)
  /\ res.arg = "1"
  /\ Cardinality(AssignedOf(res.id)) = 2
  /\ assets[res.id].productQuantity = 2

\* ---------------------------------------------------------------------
\* C30: a DELETE /assets/:id by an HR on a stored asset removes the asset only
\* when its availableQuantity equals its productQuantity, and otherwise
\* answers 400 ASSET_ASSIGNED and keeps it; with handlers run one at a time,
\* no assignment in status assigned ever references a deleted asset.
C30_Call ==
  /\ Handled("DELETE /assets")
  /\ ByHR(res'.token)
  /\ findAsset(res'.id).exists

C30_Step ==
  C30_Call
  => IF assets[res'.id].availableQuantity = assets[res'.id].productQuantity
     THEN /\ res'.statusCode = 200
          /\ ~assets'[res'.id].exists
          /\ \A k \in 1..Len(assets) : k /= res'.id => assets'[k] = assets[k]
          /\ Len(assets') = Len(assets)
          /\ UNCHANGED <<users, requests, assignments, affiliations>>
     ELSE /\ res'.statusCode = 400
          /\ res'.code = "ASSET_ASSIGNED"
          /\ UNCHANGED store

C30_NoAssignedOnDeleted ==
  \A i \in 1..Len(assignments) :
     assignments[i].status = "assigned" => findAsset(assignments[i].assetId).exists

C30_DeleteOnlyUnassigned == [][C30_Step]_vars /\ []C30_NoAssignedOnDeleted

\* an asset has been deleted after its only assigned unit was returned
C30_Witness ==
  /\ Answered("DELETE /assets", "OK")
  /\ ~findAsset(res.id).exists
  /\ \E i \in 1..Len(assignments) :
        /\ assignments[i].assetId = res.id
        /\ assignments[i].status = "returned"

\* ---------------------------------------------------------------------
\* C31: a POST /confirm-payment by an HR for a session the processor reports
\* as not paid is answered 400 PAYMENT_INCOMPLETE, and one for a paid session
\* of another hrEmail is answered 403 FORBIDDEN; in both cases no user's
\* packageLimit or subscription and no payment record changes.
C31_Call ==
  /\ Handled("POST /confirm-payment")
  /\ ByHR(res'.token)
  /\ Stored(res'.id, sessions)
  /\ \/ sessions[res'.id].payment_status /= "paid"
     \/ sessions[res'.id].hrEmail /= res'.token

C31_Step ==
  C31_Call
  => /\ IF sessions[res'.id].payment_status /= "paid"
        THEN res'.statusCode = 400 /\ res'.code = "PAYMENT_INCOMPLETE"
        ELSE res'.statusCode = 403 /\ res'.code = "FORBIDDEN"
     /\ \A email \in DOMAIN users :
           /\ users'[email].packageLimit = users[email].packageLimit
           /\ users'[email].subscription = users[email].subscription
     /\ payments' = payments
     /\ UNCHANGED <<store, ledger>>

C31_RefusedConfirmation == [][C31_Step]_vars

\* an HR has been refused the confirmation of a session another HR paid
C31_Witness ==
  /\ Answered("POST /confirm-payment", "FORBIDDEN")
  /\ ByHR(res.token)
  /\ Stored(res.id, sessions)
  /\ sessions[res.id].payment_status = "paid"
  /\ sessions[res.id].hrEmail /= res.token

\* ---------------------------------------------------------------------
\* C32: an approval refused with NO_AVAILABLE_QUANTITY leaves the request
\* pending; a return or an affiliation removal leaves every request as it was
\* and raises the availableQuantity of the asset above 0; and an approval of a
\* pending request whose asset has availableQuantity > 0 is never refused for
\* lack of quantity: it succeeds unless the package limit or the affiliation
\* index stops it.
C32_Approval ==
  /\ Handled("PATCH /requests")
  /\ res'.arg = "approved"
  /\ ByHR(res'.token)
  /\ Stored(res'.id, requests)
  /\ requests[res'.id].status = "pending"

C32_Unhindered(request) ==
  LET hrUser == findUser(request.hrEmail) IN
  /\ hrUser.role /= "none"
  /\ \/ ActiveAffiliations(request.employeeEmail, request.companyName) /= {}
     \/ /\ ~packageLimitReached(hrUser.packageLimit, hrUser.currentEmployees)
        /\ ~DuplicateKey(request.employeeEmail, request.companyName)

C32_Step ==
  /\ (C32_Approval /\ res'.code = "NO_AVAILABLE_QUANTITY")
       => (requests' = requests /\ requests'[res'.id].status = "pending")
  /\ (Handled("PATCH /assigned-assets/return") /\ res'.statusCode = 200)
       => /\ requests' = requests
          /\ assets'[assignments[res'.id].assetId].availableQuantity > 0
  /\ (Handled("PATCH /affiliations/remove") /\ res'.statusCode = 200)
       => /\ requests' = requests
          /\ \A i \in assignedTo(res'.email, res'.arg) :
                assets[assignments[i].assetId].exists
                => assets'[assignments[i].assetId].availableQuantity > 0
  /\ (C32_Approval /\ ~noAvailableQuantity(findAsset(requests[res'.id].assetId)))
       => /\ res'.code /= "NO_AVAILABLE_QUANTITY"
          /\ C32_Unhindered(requests[res'.id])
               => (res'.statusCode = 200 /\ requests'[res'.id].status = "approved")

C32_RefusedRequestStaysPending == [][C32_Step]_vars

\* the only unit of an asset was returned by one employee and the pending
\* request of the other employee has then been approved
C32_Witness ==
  /\ Answered("PATCH /requests", "OK")
  /\ res.arg = "approved"
  /\ requests[res.id].status = "approved"
  /\ findAsset(requests[res.id].assetId).productQuantity = 1
  /\ findAsset(requests[res.id].assetId).availableQuantity = 0
  /\ \E i \in 1..Len(assignments) :
        /\ assignments[i].assetId = requests[res.id].assetId
        /\ assignments[i].employeeEmail /= requests[res.id].employeeEmail
        /\ assignments[i].status = "returned"
  /\ \E j \in 1..Len(requests) :
        /\ j < res.id
        /\ requests[j].assetId = requests[res.id].assetId
        /\ requests[j].status = "approved"

\* ---------------------------------------------------------------------
\* C33: with handlers run one at a time and no profile edit, the
\* currentEmployees counter of every HR equals the number of affiliations
\* with status active whose hrEmail is that HR.
C33_CounterIsActiveAffiliations ==
  \A hr \in HREmails :
     users[hr].currentEmployees = Cardinality(AffiliatedWith(hr))

\* an HR had two employees affiliated and one of them has been removed
C33_Witness ==
  /\ Answered("PATCH /affiliations/remove", "OK")
  /\ \E hr \in HREmails :
        /\ users[hr].currentEmployees = 1
        /\ Cardinality(AffiliatedWith(hr)) = 1
        /\ \E i \in 1..Len(affiliations) :
              /\ affiliations[i].hrEmail = hr
              /\ affiliations[i].employeeEmail = res.email
              /\ affiliations[i].status = "inactive"

\* ---------------------------------------------------------------------
\* C34 as claimed: a step changes the currentEmployees counter of an HR only
\* when it is a successful approval (the counter goes up by 1) or a successful
\* affiliation removal (the counter goes down by 1, floored at 0); no other
\* operation, PUT /users/:email included, gives it another value.
C34_Step ==
  \A hr \in HREmails :
     users'[hr].currentEmployees /= users[hr].currentEmployees
     => \/ /\ Handled("PATCH /requests")
           /\ res'.arg = "approved"
           /\ res'.statusCode = 200
           /\ users'[hr].currentEmployees = users[hr].currentEmployees + 1
        \/ /\ Removed
           /\ users'[hr].currentEmployees = Max(0, users[hr].currentEmployees - 1)

C34_CounterChangesOnlyByWorkflow == [][C34_Step]_vars

\* ---------------------------------------------------------------------
\* C35 as claimed: with handlers run one at a time, no employee has two
\* assignments in status assigned for the same asset, whether they come from
\* request approvals or from direct assignments.
C35_NoDoubleHolding ==
  \A i \in 1..Len(assignments), j \in 1..Len(assignments) :
     (/\ i /= j
      /\ assignments[i].status = "assigned"
      /\ assignments[j].status = "assigned"
      /\ assignments[i].employeeEmail = assignments[j].employeeEmail)
     => assignments[i].assetId /= assignments[j].assetId

\* ---------------------------------------------------------------------
\* the requests that have been approved
Approved == {r \in 1..Len(requests) : requests[r].status = "approved"}

\* C36 as claimed: once the approval calls in flight have ended, there are no
\* more assignments than approved requests, and (as long as nothing has been
\* returned) availableQuantity has gone down by no more than the number of
\* approved requests, also when two calls for one pending request overlapped.
C36_OneAssignmentPerRequest ==
  Quiet
  => /\ Len(assignments) <= Cardinality(Approved)
     /\ (\A i \in 1..Len(assignments) : assignments[i].status = "assigned")
          => \A k \in 1..Len(assets) :
                assets[k].exists
                => assets[k].productQuantity - assets[k].availableQuantity
                     <= Cardinality({r \in Approved : requests[r].assetId = k})

\* ---------------------------------------------------------------------
\* C37 as claimed: every stored request carries the hrEmail and companyName of
\* the asset it references, and a successful approval creates an affiliation
\* with, and raises the currentEmployees of, the owner of that asset only.
C37_Carried ==
  \A r \in 1..Len(requests) :
     findAsset(requests[r].assetId).exists
     => /\ requests[r].hrEmail = findAsset(requests[r].assetId).hrEmail
        /\ requests[r].companyName = findAsset(requests[r].assetId).companyName

C37_Step ==
  (Handled("PATCH /requests") /\ res'.arg = "approved" /\ res'.statusCode = 200)
  => LET asset == findAsset(requests[res'.id].assetId)
         n == Len(affiliations')
     IN
     /\ n > Len(affiliations)
          => /\ affiliations'[n].hrEmail = asset.hrEmail
             /\ affiliations'[n].companyName = asset.companyName
     /\ \A hr \in HREmails :
           hr /= asset.hrEmail
           => users'[hr].currentEmployees = users[hr].currentEmployees

C37_RequestCarriesAssetOwner == []C37_Carried /\ [][C37_Step]_vars

\* ---------------------------------------------------------------------
\* the asset of a request has been deleted
Deleted(request) ==
  /\ Stored(request.assetId, assets)
  /\ ~assets[request.assetId].exists

\* C38: once the asset of a pending request has been deleted, every approval
\* attempt by an HR is answered 400 NO_AVAILABLE_QUANTITY and changes nothing,
\* the asset stays deleted, and no step does anything to the request other than
\* rejecting it.
C38_Step ==
  \A r \in 1..Len(requests) :
     (requests[r].status = "pending" /\ Deleted(requests[r]))
     => /\ (Handled("PATCH /requests") /\ res'.arg = "approved"
              /\ ByHR(res'.token) /\ res'.id = r)
             => /\ res'.statusCode = 400
                /\ res'.code = "NO_AVAILABLE_QUANTITY"
                /\ UNCHANGED store
        /\ ~assets'[requests[r].assetId].exists
        /\ requests'[r].status /= "approved"
        /\ requests'[r] /= requests[r]
             => /\ Handled("PATCH /requests")
                /\ res'.arg = "rejected"
                /\ res'.id = r
                /\ requests'[r].status = "rejected"

C38_DeletedAssetNeverApproved == [][C38_Step]_vars

\* the approval of a pending request for a deleted asset has been refused
C38_Witness ==
  /\ Answered("PATCH /requests", "NO_AVAILABLE_QUANTITY")
  /\ res.arg = "approved"
  /\ ByHR(res.token)
  /\ requests[res.id].status = "pending"
  /\ Deleted(requests[res.id])

\* ---------------------------------------------------------------------
\* a call by an HR on a stored asset, or on an active affiliation, of a
\* company other than the caller's own
C39_OtherCompany ==
  /\ res = Idle
  /\ ByHR(res'.token)
  /\ \/ /\ res'.op \in {"PUT /assets", "DELETE /assets"}
        /\ findAsset(res'.id).exists
        /\ findAsset(res'.id).companyName /= users[res'.token].companyName
     \/ /\ res'.op = "POST /assign-asset"
        /\ findAsset(res'.id).exists
        /\ ActiveAffiliations(res'.email, res'.arg) /= {}
        /\ \/ findAsset(res'.id).companyName /= users[res'.token].companyName
           \/ res'.arg /= users[res'.token].companyName
     \/ /\ res'.op = "PATCH /affiliations/remove"
        /\ ActiveAffiliations(res'.email, res'.arg) /= {}
        /\ res'.arg /= users[res'.token].companyName

\* C39 as claimed: a PUT /assets/:id, DELETE /assets/:id, POST /assign-asset or
\* PATCH /affiliations/remove by an HR of another company is answered 403 and
\* leaves every document unchanged.
C39_OwnCompanyOnly ==
  [][C39_OtherCompany => (res'.statusCode = 403 /\ UNCHANGED store)]_vars
====
